---- MODULE Spec2Model ----
(***************************************************************************)
(* Leighton-Micali hash-based signatures (LMS / LM-OTS) of                 *)
(* trailofbits/lms-go: the parameter registry, the Winternitz coefficient  *)
(* extractor, the LM-OTS and LMS private keys with their signing state,    *)
(* verification and the wire formats.                                      *)
(*                                                                         *)
(* Byte strings.  A byte string is kept run-length encoded: a sequence of  *)
(* segments [v, off, n], each standing for n consecutive bytes.  A segment *)
(* with v < 0 is n copies of the literal byte -(v+1).  A segment with      *)
(* v >= 0 is bytes off .. off+n-1 of the 32-byte stream number v: the      *)
(* SHA-256 output of hasher state v, or (v >= HashPrime) bytes drawn from  *)
(* a random source.  Adjacent segments that continue each other are merged *)
(* (Join), so equal byte strings have equal representations; the numeric   *)
(* value of a byte is ByteVal.  SHA-256 itself is an external primitive:   *)
(* a hasher is the integer it has absorbed so far, HashWrite mixes a byte  *)
(* string into it and the digest of state h is stream h.                   *)
(*                                                                         *)
(* Loops.  A for-loop of the source that carries an accumulator is         *)
(* written as a recursion that halves the index range; the iterations run  *)
(* in the source's order (the ...Cont operators only fix the evaluation    *)
(* order).  Loops that fill slot i of a slice independently of the other   *)
(* slots are function constructors.                                        *)
(***************************************************************************)
EXTENDS Integers, Sequences, FiniteSets, TLC

\* ------------------------------------------------------------------------
\* Bounds of the model
\* ------------------------------------------------------------------------
\* LMS typecodes whose tree height is at most MaxHeight are explored.
MaxHeight == 5
\* LM-OTS keys of the one-time-signature specification use q in 0..MaxOtsQ.
MaxOtsQ == 1
\* number of LM-OTS chains at either end of a signature whose value is changed
MaxChains == 6
\* the typecode registry is looked up for every value in 0..MaxTypecode
MaxTypecode == 40
\* number of hash outputs among the byte strings handed to Coefs and Expand
MaxDigests == 4
\* number of calls of one function on the same arguments
MaxCalls == 2

\* ------------------------------------------------------------------------
\* common/types.go, common constants
\* ------------------------------------------------------------------------
ID_LEN == 16
Sha256Size == 32
D_PBLC == <<[v |-> 0 - 129, off |-> 0, n |-> 2]>>
D_MESG == <<[v |-> 0 - 130, off |-> 0, n |-> 2]>>
D_LEAF == <<[v |-> 0 - 131, off |-> 0, n |-> 2]>>
D_INTR == <<[v |-> 0 - 132, off |-> 0, n |-> 2]>>

lmsTypecodeFirst == 5
lmsTypecodeLast == 14
lmotsTypecodeFirst == 1
lmotsTypecodeLast == 8

\* window.Mask()
Mask(w) == CASE w = 1 -> 1 [] w = 2 -> 3 [] w = 4 -> 15 [] w = 8 -> 255

\* a range check that lets the value after the last typecode through
LmsTypeWide(x) == [err |-> ~(x >= lmsTypecodeFirst /\ x <= lmsTypecodeLast + 1), val |-> x]

\* lmsTypecode.LmsType(): the typecode and whether it is in range
LmsType(x) == [err |-> ~(x >= lmsTypecodeFirst /\ x <= lmsTypecodeLast), val |-> x]

\* lmotsTypecode.LmsOtsType()
LmsOtsType(x) == [err |-> ~(x >= lmotsTypecodeFirst /\ x <= lmotsTypecodeLast), val |-> x]

LmsParam(m, h) == [err |-> FALSE, M |-> m, H |-> h]

\* lmsTypecode.LmsParams()
LmsParams(x) ==
  CASE x = 5 -> LmsParam(32, 5)
    [] x = 6 -> LmsParam(32, 10)
    [] x = 7 -> LmsParam(32, 15)
    [] x = 8 -> LmsParam(32, 20)
    [] x = 9 -> LmsParam(32, 25)
    [] x = 10 -> LmsParam(24, 5)
    [] x = 11 -> LmsParam(24, 10)
    [] x = 12 -> LmsParam(24, 15)
    [] x = 13 -> LmsParam(24, 20)
    [] x = 14 -> LmsParam(24, 25)
    [] OTHER -> [err |-> TRUE, M |-> 0, H |-> 0]

LmsOtsParam(n, w, p, ls, siglen) ==
  [err |-> FALSE, N |-> n, W |-> w, P |-> p, LS |-> ls, SIG_LEN |-> siglen]

\* a table whose N = 24, W = 1 entry carries the LS of the N = 32 entry
ParamsCopiedLS(x) ==
  CASE x = 1 -> LmsOtsParam(Sha256Size, 1, 265, 7, 8516)
    [] x = 2 -> LmsOtsParam(Sha256Size, 2, 133, 6, 4292)
    [] x = 3 -> LmsOtsParam(Sha256Size, 4, 67, 4, 2180)
    [] x = 4 -> LmsOtsParam(Sha256Size, 8, 34, 0, 1124)
    [] x = 5 -> LmsOtsParam(24, 1, 200, 7, 4828)
    [] x = 6 -> LmsOtsParam(24, 2, 101, 6, 2452)
    [] x = 7 -> LmsOtsParam(24, 4, 51, 4, 1252)
    [] x = 8 -> LmsOtsParam(24, 8, 26, 0, 652)
    [] OTHER -> [err |-> TRUE, N |-> 0, W |-> 1, P |-> 0, LS |-> 0, SIG_LEN |-> 0]

\* lmotsTypecode.Params()
Params(x) ==
  CASE x = 1 -> LmsOtsParam(Sha256Size, 1, 265, 7, 8516)
    [] x = 2 -> LmsOtsParam(Sha256Size, 2, 133, 6, 4292)
    [] x = 3 -> LmsOtsParam(Sha256Size, 4, 67, 4, 2180)
    [] x = 4 -> LmsOtsParam(Sha256Size, 8, 34, 0, 1124)
    [] x = 5 -> LmsOtsParam(24, 1, 200, 8, 4828)
    [] x = 6 -> LmsOtsParam(24, 2, 101, 6, 2452)
    [] x = 7 -> LmsOtsParam(24, 4, 51, 4, 1252)
    [] x = 8 -> LmsOtsParam(24, 8, 26, 0, 652)
    [] OTHER -> [err |-> TRUE, N |-> 0, W |-> 1, P |-> 0, LS |-> 0, SIG_LEN |-> 0]

\* lmotsTypecode.LmsOtsSigLength()
LmsOtsSigLength(x) ==
  IF x >= lmotsTypecodeFirst /\ x <= lmotsTypecodeLast
  THEN [err |-> Params(x).err, val |-> Params(x).SIG_LEN]
  ELSE [err |-> TRUE, val |-> 0]

\* lmsTypecode.LmsSigLength(otstc)
LmsSigLength(x, otstc) ==
  IF x >= lmsTypecodeFirst /\ x <= lmsTypecodeLast
  THEN IF LmsParams(x).err \/ LmsOtsSigLength(otstc).err
       THEN [err |-> TRUE, val |-> 0]
       ELSE [err |-> FALSE,
             val |-> 4 + 4 + LmsOtsSigLength(otstc).val + LmsParams(x).H * LmsParams(x).M]
  ELSE [err |-> TRUE, val |-> 0]

\* ------------------------------------------------------------------------
\* Byte strings
\* ------------------------------------------------------------------------
Mid(a, b) == (a + b) \div 2
Pow2(k) == 2 ^ k

Seg(v, off, n) == [v |-> v, off |-> off, n |-> n]

\* n copies of the literal byte b
Raw(b, n) == IF n = 0 THEN << >> ELSE <<Seg(0 - (b + 1), 0, n)>>

\* whether segment t continues segment s
Continues(s, t) == s.v = t.v /\ (s.v < 0 \/ s.off + s.n = t.off)

\* append(x, y...)
Join(x, y) ==
  IF x = << >> THEN y
  ELSE IF y = << >> THEN x
  ELSE IF Continues(x[Len(x)], y[1])
       THEN SubSeq(x, 1, Len(x) - 1)
            \o <<Seg(y[1].v, x[Len(x)].off, x[Len(x)].n + y[1].n)>>
            \o Tail(y)
       ELSE x \o y

\* number of bytes in segments from+1 .. to of x
RECURSIVE ByteLenFrom(_, _, _)
ByteLenFrom(x, from, to) ==
  IF from >= to THEN 0
  ELSE IF to = from + 1 THEN x[to].n
  ELSE ByteLenFrom(x, from, Mid(from, to)) + ByteLenFrom(x, Mid(from, to), to)

\* len(x)
ByteLen(x) == ByteLenFrom(x, 0, Len(x))

\* bytes a .. b-1 of the single segment s
Clip(s, a, b) ==
  IF (IF b < s.n THEN b ELSE s.n) <= (IF a > 0 THEN a ELSE 0) THEN << >>
  ELSE <<Seg(s.v, IF s.v < 0 THEN 0 ELSE s.off + (IF a > 0 THEN a ELSE 0),
             (IF b < s.n THEN b ELSE s.n) - (IF a > 0 THEN a ELSE 0))>>

\* bytes a .. b-1 of segments from+1 .. to of x, counted from the start of
\* segment from+1
RECURSIVE SliceFrom(_, _, _, _, _)
SliceFrom(x, from, to, a, b) ==
  IF from >= to \/ b <= a THEN << >>
  ELSE IF to = from + 1 THEN Clip(x[to], a, b)
  ELSE LET left == ByteLenFrom(x, from, Mid(from, to))
       IN Join(IF a < left THEN SliceFrom(x, from, Mid(from, to), a, b) ELSE << >>,
               IF b > left THEN SliceFrom(x, Mid(from, to), to, a - left, b - left)
               ELSE << >>)

\* x[a:b] of Go (0-based, half open); a <= b <= len(x)
Slice(x, a, b) == SliceFrom(x, 0, Len(x), a, b)

\* numeric value of byte k (0-based) of stream v
StreamByte(v, k) == ((v + 1) * (2 * k + 3) + (v \div 256) + k * k) % 256

\* numeric value of x[k] (0-based)
RECURSIVE ByteValFrom(_, _, _)
ByteValFrom(x, i, k) ==
  IF k < x[i].n
  THEN IF x[i].v < 0 THEN 0 - x[i].v - 1 ELSE StreamByte(x[i].v, x[i].off + k)
  ELSE ByteValFrom(x, i + 1, k - x[i].n)
ByteVal(x, k) == ByteValFrom(x, 1, k)

\* binary.BigEndian.PutUint32 / PutUint16 / Uint32
BE32(v) ==
  Join(Join(Raw((v \div 16777216) % 256, 1), Raw((v \div 65536) % 256, 1)),
       Join(Raw((v \div 256) % 256, 1), Raw(v % 256, 1)))
BE16(v) ==
  IF (v \div 256) % 256 = v % 256 THEN Raw(v % 256, 2)
  ELSE <<Seg(0 - (((v \div 256) % 256) + 1), 0, 1), Seg(0 - ((v % 256) + 1), 0, 1)>>
Uint32(x) ==
  ((ByteVal(x, 0) * 256 + ByteVal(x, 1)) * 256 + ByteVal(x, 2)) * 256 + ByteVal(x, 3)

\* ------------------------------------------------------------------------
\* The hash primitive and common/util.go
\* ------------------------------------------------------------------------
HashPrime == 32749
HashBase == 263

\* Hasher.New()
HashNew == 7

\* the hasher after absorbing the bytes of one segment
AbsorbSeg(h, s) ==
  (((h * HashBase + s.v + 300) % HashPrime) * 17 + s.off * 5 + s.n) % HashPrime

\* h.Write(x): absorb the segments of x in order
RECURSIVE Absorb(_, _, _)
Absorb(h, x, i) == IF i > Len(x) THEN h ELSE Absorb(AbsorbSeg(h, x[i]), x, i + 1)

\* common.HashWrite(h, x)
HashWrite(h, x) == IF Len(x) = 1 THEN AbsorbSeg(h, x[1]) ELSE Absorb(h, x, 1)

\* common.HashSum(h, n): the n leftmost bytes of the digest
HashSum(h, n) == <<Seg(h, 0, n)>>

\* hasher.Sum(nil): the whole digest
HashSumNil(h) == <<Seg(h, 0, Sha256Size)>>

\* digits taken from the low end of each byte first
CoefsLsbFirst(x, w) ==
  [i \in 1..((8 \div w) * ByteLen(x)) |->
     (ByteVal(x, (i - 1) \div (8 \div w))
        \div Pow2(((i - 1) % (8 \div w)) * w)) % (Mask(w) + 1)] \o << >>

\* Coefs(x, w): digits as a sequence (index i of the source is i+1 here)
Coefs(x, w) ==
  [i \in 1..((8 \div w) * ByteLen(x)) |->
     (ByteVal(x, (i - 1) \div (8 \div w))
        \div Pow2(8 - w - ((i - 1) % (8 \div w)) * w)) % (Mask(w) + 1)] \o << >>

\* the uint16 sum of Cksm over coefs[from+1 .. to]
RECURSIVE CksmSum(_, _, _, _)
CksmSum(coefs, w, from, to) ==
  IF from >= to THEN 0
  ELSE IF to = from + 1 THEN (Pow2(w) - 1 - coefs[to]) % 65536
  ELSE (CksmSum(coefs, w, from, Mid(from, to)) + CksmSum(coefs, w, Mid(from, to), to)) % 65536

\* a checksum that adds the digits up instead of their complements
CksmOfDigits(coefs, w, LS) ==
  ((Len(coefs) * (Pow2(w) - 1) - CksmSum(coefs, w, 0, Len(coefs))) * Pow2(LS)) % 65536

\* a checksum that is not shifted
CksmUnshifted(coefs, w, LS) == CksmSum(coefs, w, 0, Len(coefs)) % 65536

\* Cksm(coefs, w, LS)
Cksm(coefs, w, LS) == (CksmSum(coefs, w, 0, Len(coefs)) * Pow2(LS)) % 65536

\* Expand, after the parameter lookup: res = Coefs(msg), then the checksum digits
ExpandDigits(res, params) ==
  SubSeq(res \o Coefs(BE16(Cksm(res, params.W, params.LS)), params.W), 1, params.P)

\* Expand(msg, mode): res[:params.P] of the digits of msg and of its checksum
Expand(msg, mode) ==
  IF Params(mode).err THEN [err |-> TRUE, val |-> << >>]
  ELSE [err |-> FALSE, val |-> ExpandDigits(Coefs(msg, Params(mode).W), Params(mode))]

\* subtle.ConstantTimeCompare(x, y)
ConstantTimeCompare(x, y) == IF x = y THEN 1 ELSE 0

\* ------------------------------------------------------------------------
\* ots: private key (NewPrivateKeyFromSeed, Public, Sign)
\* ------------------------------------------------------------------------
NoOtsPrivateKey == [typecode |-> 0, q |-> 0, id |-> << >>, x |-> << >>, valid |-> FALSE]
NoOtsPublicKey == [typecode |-> 0, q |-> 0, id |-> << >>, k |-> << >>]
NoOtsSignature == [typecode |-> 0, c |-> << >>, y |-> << >>]

\* the hasher after the two writes every LM-OTS hash starts with: id, be32(q)
IdQ(id, q) == HashWrite(HashWrite(HashNew, id), BE32(q))

\* the hasher of the chain loops after its first three writes: id, be32(q), be16(i)
\* (every iteration starts a new hasher with these same writes)
ChainPrefix(idq, i) == HashWrite(idq, BE16(i))

\* one iteration of the inner chain loop: tmp = H(id || q || i || byte(j) || tmp)[:N]
ChainStep(N, prefix, j, tmp) ==
  HashSum(HashWrite(AbsorbSeg(prefix, Seg(0 - ((j % 256) + 1), 0, 1)), tmp), N)

\* for j := from; j < to; j++ { tmp = ChainStep(j, tmp) }
RECURSIVE Chain(_, _, _, _, _), ChainCont(_, _, _, _, _)
Chain(N, prefix, from, to, tmp) ==
  IF from >= to THEN tmp
  ELSE IF to = from + 1 THEN ChainStep(N, prefix, from, tmp)
  ELSE ChainCont(N, prefix, Mid(from, to), to, Chain(N, prefix, from, Mid(from, to), tmp))
ChainCont(N, prefix, from, to, t) ==
  IF Len(t) >= 0 THEN Chain(N, prefix, from, to, t) ELSE t

\* for i := from; i < to; i++ { HashWrite(h, ys[i]) }   (ys[i] of the source is ys[i+1])
RECURSIVE WriteAll(_, _, _, _), WriteAllCont(_, _, _, _)
WriteAll(h, ys, from, to) ==
  IF from >= to THEN h
  ELSE IF to = from + 1 THEN HashWrite(h, ys[to])
  ELSE WriteAllCont(WriteAll(h, ys, from, Mid(from, to)), ys, Mid(from, to), to)
WriteAllCont(h, ys, from, to) == IF h >= 0 THEN WriteAll(h, ys, from, to) ELSE h

\* the x[i] derivation of NewPrivateKeyFromSeed
OtsSeedX(params, q, id, seed) ==
  LET idq == IdQ(id, q)
  IN [i \in 1..params.P |->
        HashSum(HashWrite(HashWrite(HashWrite(idq, BE16(i - 1)), Raw(255, 1)), seed),
                params.N)] \o << >>

\* ots.NewPrivateKeyFromSeed(tc, q, id, seed)
OtsNewPrivateKeyFromSeed(tc, q, id, seed) ==
  IF Params(tc).err THEN [err |-> TRUE, val |-> NoOtsPrivateKey]
  ELSE [err |-> FALSE,
        val |-> [typecode |-> tc, q |-> q, id |-> id,
                 x |-> OtsSeedX(Params(tc), q, id, seed), valid |-> TRUE]]

\* the chain ends of Public: x.x[i] iterated for j = 0 .. 2^W-2
OtsPublicEnds(params, x) ==
  LET idq == IdQ(x.id, x.q)
  IN [i \in 1..params.P |->
        Chain(params.N, ChainPrefix(idq, i - 1), 0, Pow2(params.W) - 1, x.x[i])] \o << >>

\* LmsOtsPrivateKey.Public(): reading x.x[i] of an erased key is an index out
\* of range (panic)
OtsPublic(x) ==
  IF Params(x.typecode).err THEN [err |-> TRUE, panic |-> FALSE, val |-> NoOtsPublicKey]
  ELSE IF Len(x.x) < Params(x.typecode).P
       THEN [err |-> FALSE, panic |-> TRUE, val |-> NoOtsPublicKey]
  ELSE LET params == Params(x.typecode)
           hasher == HashWrite(IdQ(x.id, x.q), D_PBLC)
       IN [err |-> FALSE, panic |-> FALSE,
           val |-> [typecode |-> x.typecode, q |-> x.q, id |-> x.id,
                    k |-> HashSum(WriteAll(hasher, OtsPublicEnds(params, x), 0, params.P),
                                  params.N)]]

\* c := make([]byte, N); rng.Read(c): the bytes the reader delivered, then zeros
RngFill(rng, N) ==
  Join(Slice(rng.data, 0, IF ByteLen(rng.data) < N THEN ByteLen(rng.data) ELSE N),
       Raw(0, N - (IF ByteLen(rng.data) < N THEN ByteLen(rng.data) ELSE N)))

\* a digest that leaves the nonce out: H(id || q || D_MESG || msg)[:N]
MessageDigestWithoutNonce(N, id, q, c, msg) ==
  HashSum(HashWrite(HashWrite(IdQ(id, q), D_MESG), msg), N)

\* Q = H(id || q || D_MESG || c || msg)[:N]
MessageDigest(N, id, q, c, msg) ==
  HashSum(HashWrite(HashWrite(HashWrite(IdQ(id, q), D_MESG), c), msg), N)

\* the y[i] of Sign: x.x[i] iterated for j = 0 .. expanded[i]-1
OtsSignY(params, x, expanded) ==
  LET idq == IdQ(x.id, x.q)
  IN [i \in 1..params.P |->
        Chain(params.N, ChainPrefix(idq, i - 1), 0, expanded[i], x.x[i])] \o << >>

\* an error return that has already erased the key
OtsSignFailConsumed(x) ==
  [err |-> TRUE, val |-> NoOtsSignature, key |-> [x EXCEPT !.x = << >>, !.valid = FALSE]]

\* an error return of Sign: no signature, the key as it was
OtsSignFail(x) == [err |-> TRUE, val |-> NoOtsSignature, key |-> x]

\* the key that stays behind when Sign returns a signature
OtsConsumedKept(x) == x

\* x.x = nil; x.valid = false: the key Sign leaves behind when it returns a signature
OtsConsumed(x) == [x EXCEPT !.x = << >>, !.valid = FALSE]

\* LmsOtsPrivateKey.Sign(msg, rng): the signature and the key as Sign leaves it
OtsSign(x, msg, rng) ==
  IF ~x.valid THEN OtsSignFail(x)
  ELSE IF Params(x.typecode).err THEN OtsSignFail(x)
  ELSE IF rng.err THEN OtsSignFail(x)
  ELSE LET params == Params(x.typecode)
           c == RngFill(rng, params.N)
           expanded == Expand(MessageDigest(params.N, x.id, x.q, c, msg), x.typecode)
       IN IF expanded.err THEN OtsSignFail(x)
          ELSE [err |-> FALSE,
                val |-> [typecode |-> x.typecode, c |-> c,
                         y |-> OtsSignY(params, x, expanded.val)],
                key |-> OtsConsumed(x)]

\* ------------------------------------------------------------------------
\* ots: public key (Verify, RecoverPublicKey) and serialization
\* ------------------------------------------------------------------------
\* chains continued one step too late: sig.y[i] iterated for j = a+1 .. 2^W-2
OtsRecoverEndsFromNext(params, sig, id, q, expanded) ==
  LET idq == IdQ(id, q)
  IN [i \in 1..params.P |->
        Chain(params.N, ChainPrefix(idq, i - 1), expanded[i] + 1, Pow2(params.W) - 1,
              sig.y[i])] \o << >>

\* the chain ends of RecoverPublicKey: sig.y[i] iterated for j = a .. 2^W-2
OtsRecoverEnds(params, sig, id, q, expanded) ==
  LET idq == IdQ(id, q)
  IN [i \in 1..params.P |->
        Chain(params.N, ChainPrefix(idq, i - 1), expanded[i], Pow2(params.W) - 1,
              sig.y[i])] \o << >>

RecoverFail == [ok |-> FALSE, val |-> NoOtsPublicKey]

\* LmsOtsSignature.RecoverPublicKey(msg, pubtype, id, q)
RecoverPublicKey(sig, msg, pubtype, id, q) ==
  IF pubtype # sig.typecode THEN RecoverFail
  ELSE IF Params(sig.typecode).err THEN RecoverFail
  ELSE IF ByteLen(sig.c) # Params(sig.typecode).N THEN RecoverFail
  ELSE IF Len(sig.y) # Params(sig.typecode).P THEN RecoverFail
  ELSE IF \E i \in 1..Len(sig.y) : ByteLen(sig.y[i]) # Params(sig.typecode).N THEN RecoverFail
  ELSE LET params == Params(sig.typecode)
           expanded == Expand(MessageDigest(params.N, id, q, sig.c, msg), sig.typecode)
           hasher == HashWrite(IdQ(id, q), D_PBLC)
       IN IF expanded.err THEN RecoverFail
          ELSE [ok |-> TRUE,
                val |-> [typecode |-> sig.typecode, q |-> q, id |-> id,
                         k |-> HashSum(WriteAll(hasher,
                                                OtsRecoverEnds(params, sig, id, q,
                                                               expanded.val),
                                                0, params.P),
                                       params.N)]]

\* LmsOtsPublicKey.Verify(msg, sig)
OtsVerify(pub, msg, sig) ==
  LET kc == RecoverPublicKey(sig, msg, pub.typecode, pub.id, pub.q)
  IN kc.ok /\ ConstantTimeCompare(pub.k, kc.val.k) = 1

\* ------------------------------------------------------------------------
\* ots: wire formats of the public key and of the signature
\* ------------------------------------------------------------------------
\* LmsOtsPublicKey.ToBytes()
OtsPubToBytes(pub) ==
  Join(Join(Join(BE32(LmsOtsType(pub.typecode).val), pub.id), BE32(pub.q)), pub.k)

\* LmsOtsPublicKeyFromBytes(b)
LmsOtsPublicKeyFromBytes(b) ==
  IF ByteLen(b) < 4 THEN [err |-> TRUE, val |-> NoOtsPublicKey]
  ELSE IF LmsOtsType(Uint32(Slice(b, 0, 4))).err THEN [err |-> TRUE, val |-> NoOtsPublicKey]
  ELSE IF Params(Uint32(Slice(b, 0, 4))).err THEN [err |-> TRUE, val |-> NoOtsPublicKey]
  ELSE IF ByteLen(b) # 4 + ID_LEN + 4 + Params(Uint32(Slice(b, 0, 4))).N
       THEN [err |-> TRUE, val |-> NoOtsPublicKey]
  ELSE [err |-> FALSE,
        val |-> [typecode |-> Uint32(Slice(b, 0, 4)),
                 q |-> Uint32(Slice(b, 4 + ID_LEN, 8 + ID_LEN)),
                 id |-> Slice(b, 4, 4 + ID_LEN),
                 k |-> Slice(b, 8 + ID_LEN, ByteLen(b))]]

\* the bytes of ys[from] .. ys[to-1] in order (ys[i] of the source is ys[i+1])
RECURSIVE Concat(_, _, _)
Concat(ys, from, to) ==
  IF from >= to THEN << >>
  ELSE IF to = from + 1 THEN ys[to]
  ELSE Join(Concat(ys, from, Mid(from, to)), Concat(ys, Mid(from, to), to))

\* for i := from; i < to; i++ { serialized = append(serialized, ys[i]...) }
AppendAll(s, ys, from, to) == Join(s, Concat(ys, from, to))

\* LmsOtsSignature.ToBytes(): sig.y[i] beyond len(sig.y) is an index out of range
OtsSigToBytes(sig) ==
  IF Params(sig.typecode).err \/ LmsOtsType(sig.typecode).err
  THEN [err |-> TRUE, panic |-> FALSE, val |-> << >>]
  ELSE IF Len(sig.y) < Params(sig.typecode).P
       THEN [err |-> FALSE, panic |-> TRUE, val |-> << >>]
  ELSE [err |-> FALSE, panic |-> FALSE,
        val |-> AppendAll(Join(BE32(sig.typecode), sig.c), sig.y, 0,
                          Params(sig.typecode).P)]

\* LmsOtsSignatureFromBytes(b)
LmsOtsSignatureFromBytes(b) ==
  IF ByteLen(b) < 4 THEN [err |-> TRUE, val |-> NoOtsSignature]
  ELSE IF Params(Uint32(Slice(b, 0, 4))).err THEN [err |-> TRUE, val |-> NoOtsSignature]
  ELSE IF ByteLen(b) # Params(Uint32(Slice(b, 0, 4))).SIG_LEN
       THEN [err |-> TRUE, val |-> NoOtsSignature]
  ELSE LET params == Params(Uint32(Slice(b, 0, 4)))
       IN [err |-> FALSE,
           val |-> [typecode |-> Uint32(Slice(b, 0, 4)),
                    c |-> Slice(b, 4, 4 + params.N),
                    y |-> [i \in 1..params.P |->
                             Slice(b, 4 + i * params.N, 4 + (i + 1) * params.N)] \o << >>]]

\* ------------------------------------------------------------------------
\* lms: private key (GeneratePKTree, NewPrivateKeyFromSeed, Public, Sign)
\* ------------------------------------------------------------------------
NoLmsPrivateKey ==
  [typecode |-> 0, otstype |-> 0, q |-> 0, id |-> << >>, seed |-> << >>, authtree |-> << >>]
NoLmsPublicKey == [typecode |-> 0, otstype |-> 0, id |-> << >>, k |-> << >>]
NoLmsSignature == [typecode |-> 0, q |-> 0, ots |-> NoOtsSignature, path |-> << >>]

\* The tree is a sequence: node T[r] of RFC 8554, authtree[r-1] of the source,
\* is element r.

\* the leaf written by the outer loop of GeneratePKTree for index i
TreeLeaf(otstc, id, seed, i, leaves) ==
  HashSumNil(HashWrite(HashWrite(HashWrite(HashWrite(HashNew, id), BE32(i + leaves)), D_LEAF),
                       OtsPublic(OtsNewPrivateKeyFromSeed(otstc, i, id, seed).val).val.k))

\* the inner node written by the inner loop of GeneratePKTree for node r
TreeInner(id, r, left, right) ==
  HashSumNil(HashWrite(HashWrite(HashWrite(HashWrite(HashWrite(HashNew, id), BE32(r)),
                                           D_INTR), left), right))

\* for j%2 == 1 { r = (r-1)>>1; j = (j-1)>>1; authtree[r-1] = inner node }
RECURSIVE TreeFold(_, _, _, _)
TreeFold(tree, id, r, j) ==
  IF j % 2 = 1
  THEN TreeFold([tree EXCEPT ![(r - 1) \div 2] =
                   TreeInner(id, (r - 1) \div 2, tree[2 * ((r - 1) \div 2)],
                             tree[2 * ((r - 1) \div 2) + 1])],
                id, (r - 1) \div 2, (j - 1) \div 2)
  ELSE tree

\* one iteration of the outer loop of GeneratePKTree
TreeStep(tree, otstc, id, seed, i, leaves) ==
  TreeFold([tree EXCEPT ![i + leaves] = TreeLeaf(otstc, id, seed, i, leaves)],
           id, i + leaves, i)

\* for i = from; i < to; i++ { TreeStep }
RECURSIVE TreeLoop(_, _, _, _, _, _, _), TreeLoopCont(_, _, _, _, _, _, _)
TreeLoop(tree, otstc, id, seed, leaves, from, to) ==
  IF from >= to THEN tree
  ELSE IF to = from + 1 THEN TreeStep(tree, otstc, id, seed, from, leaves)
  ELSE TreeLoopCont(TreeLoop(tree, otstc, id, seed, leaves, from, Mid(from, to)),
                    otstc, id, seed, leaves, Mid(from, to), to)
TreeLoopCont(tree, otstc, id, seed, leaves, from, to) ==
  IF Len(tree) >= 0 THEN TreeLoop(tree, otstc, id, seed, leaves, from, to) ELSE tree

\* GeneratePKTree(tc, otstc, id, seed)
GeneratePKTree(tc, otstc, id, seed) ==
  IF LmsParams(tc).err \/ Params(otstc).err THEN [err |-> TRUE, val |-> << >>]
  ELSE [err |-> FALSE,
        val |-> TreeLoop([r \in 1..(Pow2(LmsParams(tc).H + 1) - 1) |-> << >>] \o << >>,
                         otstc, id, seed, Pow2(LmsParams(tc).H), 0, Pow2(LmsParams(tc).H))]

\* lms.NewPrivateKeyFromSeed(tc, otstc, id, seed)
LmsNewPrivateKeyFromSeed(tc, otstc, id, seed) ==
  IF LmsType(tc).err \/ LmsOtsType(otstc).err THEN [err |-> TRUE, val |-> NoLmsPrivateKey]
  ELSE LET tree == GeneratePKTree(tc, otstc, id, seed)
       IN IF tree.err THEN [err |-> TRUE, val |-> NoLmsPrivateKey]
          ELSE [err |-> FALSE,
                val |-> [typecode |-> tc, otstype |-> otstc, q |-> 0, id |-> id,
                         seed |-> seed, authtree |-> tree.val]]

\* LmsPrivateKey.Public()
LmsPublic(priv) ==
  [typecode |-> priv.typecode, otstype |-> priv.otstype, id |-> priv.id,
   k |-> priv.authtree[1]]

\* an exhaustion test that lets one more Sign through
ExhaustedLate(priv, params) == priv.q > Pow2(params.H)

\* priv.q >= leaves, the exhaustion test of Sign
Exhausted(priv, params) == priv.q >= Pow2(params.H)

\* temp = (r >> i) ^ 1
SiblingOf(r, i) ==
  IF (r \div Pow2(i)) % 2 = 0 THEN (r \div Pow2(i)) + 1 ELSE (r \div Pow2(i)) - 1

\* the authpath loop of Sign: authpath[i] = priv.authtree[temp-1]
AuthPath(priv, params) ==
  [i \in 1..params.H |-> priv.authtree[SiblingOf(Pow2(params.H) + priv.q, i - 1)]] \o << >>

\* a counter that advances and takes the root of the tree with it
incrementQDroppingRoot(priv) ==
  [priv EXCEPT !.q = priv.q + 1, !.authtree[1] = priv.authtree[2]]

\* a counter that stays where it is
incrementQSkipped(priv) == priv

\* a counter that advances by two
incrementQTwice(priv) == [priv EXCEPT !.q = priv.q + 2]

\* LmsPrivateKey.incrementQ(); the counters of the model stay far below 2^32
incrementQ(priv) == [priv EXCEPT !.q = priv.q + 1]

\* a signature that carries the counter as it is after incrementQ
SigCounterCurrent(priv) == priv.q

\* the counter Sign puts into the signature, read after incrementQ: priv.q - 1
SigCounter(priv) == priv.q - 1

\* an error return that has already advanced the counter
LmsSignFailAdvanced(priv) ==
  [err |-> TRUE, panic |-> FALSE, val |-> NoLmsSignature, key |-> incrementQ(priv)]

\* an error return of Sign: no signature, the key as it was
LmsSignFail(priv) == [err |-> TRUE, panic |-> FALSE, val |-> NoLmsSignature, key |-> priv]

\* LmsPrivateKey.Sign(msg, rng): the signature and the key as Sign leaves it;
\* priv.authtree[temp-1] beyond len(priv.authtree) is an index out of range
LmsSign(priv, msg, rng) ==
  IF LmsParams(priv.typecode).err THEN LmsSignFail(priv)
  ELSE IF Exhausted(priv, LmsParams(priv.typecode)) THEN LmsSignFail(priv)
  ELSE LET ots_priv == OtsNewPrivateKeyFromSeed(priv.otstype, priv.q, priv.id, priv.seed)
       IN IF ots_priv.err THEN LmsSignFail(priv)
          ELSE LET ots_sig == OtsSign(ots_priv.val, msg, rng)
               IN IF ots_sig.err THEN LmsSignFail(priv)
                  ELSE IF \E i \in 0..(LmsParams(priv.typecode).H - 1) :
                            SiblingOf(Pow2(LmsParams(priv.typecode).H) + priv.q, i)
                              > Len(priv.authtree)
                       THEN [err |-> FALSE, panic |-> TRUE, val |-> NoLmsSignature,
                             key |-> priv]
                  ELSE [err |-> FALSE, panic |-> FALSE,
                        val |-> [typecode |-> priv.typecode,
                                 q |-> SigCounter(incrementQ(priv)),
                                 ots |-> ots_sig.val,
                                 path |-> AuthPath(priv, LmsParams(priv.typecode))],
                        key |-> incrementQ(priv)]

\* LmsPrivateKey.ToBytes()
LmsPrivToBytes(priv) ==
  Join(Join(Join(Join(BE32(LmsType(priv.typecode).val), BE32(LmsOtsType(priv.otstype).val)),
                 BE32(priv.q)), priv.id), priv.seed)

\* LmsPrivateKey.Q()
Q(priv) == priv.q

\* LmsPrivateKeyFromBytes(b)
LmsPrivateKeyFromBytes(b) ==
  IF ByteLen(b) < 8 THEN [err |-> TRUE, val |-> NoLmsPrivateKey]
  ELSE IF LmsType(Uint32(Slice(b, 0, 4))).err THEN [err |-> TRUE, val |-> NoLmsPrivateKey]
  ELSE IF LmsOtsType(Uint32(Slice(b, 4, 8))).err THEN [err |-> TRUE, val |-> NoLmsPrivateKey]
  ELSE IF LmsParams(Uint32(Slice(b, 0, 4))).err THEN [err |-> TRUE, val |-> NoLmsPrivateKey]
  ELSE IF ByteLen(b) < LmsParams(Uint32(Slice(b, 0, 4))).M + 28
       THEN [err |-> TRUE, val |-> NoLmsPrivateKey]
  ELSE LET privateKey ==
             LmsNewPrivateKeyFromSeed(Uint32(Slice(b, 0, 4)), Uint32(Slice(b, 4, 8)),
                                      Slice(b, 12, 28),
                                      Slice(b, 28, LmsParams(Uint32(Slice(b, 0, 4))).M + 28))
       IN IF privateKey.err THEN [err |-> TRUE, val |-> NoLmsPrivateKey]
          ELSE [err |-> FALSE,
                val |-> [privateKey.val EXCEPT !.q = Uint32(Slice(b, 8, 12))]]

\* ------------------------------------------------------------------------
\* lms: public key (Verify) and wire formats
\* ------------------------------------------------------------------------
\* the loop of Verify: level i .. height-1, from tmp at node node_num
RECURSIVE VerifyClimb(_, _, _, _, _, _, _)
VerifyClimb(N, id, path, tmp, node_num, i, height) ==
  IF i >= height THEN tmp
  ELSE VerifyClimb(N, id, path,
                   HashSum(IF node_num % 2 = 1
                           THEN HashWrite(HashWrite(HashWrite(HashWrite(HashWrite(
                                  HashNew, id), BE32(node_num \div 2)), D_INTR),
                                  path[i + 1]), tmp)
                           ELSE HashWrite(HashWrite(HashWrite(HashWrite(HashWrite(
                                  HashNew, id), BE32(node_num \div 2)), D_INTR),
                                  tmp), path[i + 1]),
                           N),
                   node_num \div 2, i + 1, height)

\* NewPublicKey(tc, otstc, id, k)
NewPublicKey(tc, otstc, id, k) ==
  IF ByteLen(k) < 8 THEN [err |-> TRUE, val |-> NoLmsPublicKey]
  ELSE IF LmsType(tc).err \/ LmsOtsType(otstc).err THEN [err |-> TRUE, val |-> NoLmsPublicKey]
  ELSE [err |-> FALSE, val |-> [typecode |-> tc, otstype |-> otstc, id |-> id, k |-> k]]

\* a comparison of the two LMS typecodes that never finds them different
TypecodeMismatchIgnored(pub, sig) == FALSE

\* algorithm 6a step 2.g in Verify: sig.typecode != pub.typecode
TypecodeMismatch(pub, sig) == sig.typecode # pub.typecode

\* what Verify returns early, before the loop over the path
VerifyRejected == [panic |-> FALSE, val |-> FALSE, read |-> 0]

\* LmsPublicKey.Verify(msg, sig) as it runs: the boolean it returns, the
\* number of elements of sig.path it has read, and whether it ends in a panic;
\* sig.path[i] beyond len(sig.path) is an index out of range
LmsVerifyRun(pub, msg, sig) ==
  IF LmsParams(pub.typecode).err \/ Params(pub.otstype).err THEN VerifyRejected
  ELSE IF TypecodeMismatch(pub, sig) THEN VerifyRejected
  ELSE LET params == LmsParams(pub.typecode)
           ots_params == Params(pub.otstype)
           kc == RecoverPublicKey(sig.ots, msg, pub.otstype, pub.id, sig.q)
       IN IF ~kc.ok THEN VerifyRejected
          ELSE IF Len(sig.path) < params.H
               THEN [panic |-> TRUE, val |-> FALSE, read |-> Len(sig.path)]
          ELSE [panic |-> FALSE,
                val |-> ConstantTimeCompare(
                          VerifyClimb(ots_params.N, pub.id, sig.path,
                                      HashSum(HashWrite(HashWrite(HashWrite(HashWrite(
                                                HashNew, pub.id), BE32(sig.q + Pow2(params.H))),
                                                D_LEAF), kc.val.k),
                                              ots_params.N),
                                      sig.q + Pow2(params.H), 0, params.H),
                          pub.k) = 1,
                read |-> params.H]

\* LmsPublicKey.Verify(msg, sig)
LmsVerify(pub, msg, sig) == LmsVerifyRun(pub, msg, sig).val

\* LmsPublicKey.ToBytes()
LmsPubToBytes(pub) ==
  Join(Join(Join(BE32(LmsType(pub.typecode).val), BE32(LmsOtsType(pub.otstype).val)),
            pub.id), pub.k)

\* LmsPublicKeyFromBytes(b)
LmsPublicKeyFromBytes(b) ==
  IF ByteLen(b) < 8 THEN [err |-> TRUE, val |-> NoLmsPublicKey]
  ELSE IF LmsType(Uint32(Slice(b, 0, 4))).err THEN [err |-> TRUE, val |-> NoLmsPublicKey]
  ELSE IF LmsOtsType(Uint32(Slice(b, 4, 8))).err THEN [err |-> TRUE, val |-> NoLmsPublicKey]
  ELSE IF LmsParams(Uint32(Slice(b, 0, 4))).err THEN [err |-> TRUE, val |-> NoLmsPublicKey]
  ELSE IF ByteLen(b) # LmsParams(Uint32(Slice(b, 0, 4))).M + 24
       THEN [err |-> TRUE, val |-> NoLmsPublicKey]
  ELSE [err |-> FALSE,
        val |-> [typecode |-> Uint32(Slice(b, 0, 4)), otstype |-> Uint32(Slice(b, 4, 8)),
                 id |-> Slice(b, 8, 24), k |-> Slice(b, 24, ByteLen(b))]]

\* a path check that lets every path through
WrongPathLengthAccepted(path, params) == FALSE

\* the check of NewLmsSignature that the path has H elements
WrongPathLength(path, params) == Len(path) # params.H

\* NewLmsSignature(tc, q, otsig, path)
NewLmsSignature(tc, q, otsig, path) ==
  IF LmsType(tc).err \/ LmsParams(tc).err THEN [err |-> TRUE, val |-> NoLmsSignature]
  ELSE IF q >= Pow2(LmsParams(tc).H) THEN [err |-> TRUE, val |-> NoLmsSignature]
  ELSE IF WrongPathLength(path, LmsParams(tc)) THEN [err |-> TRUE, val |-> NoLmsSignature]
  ELSE [err |-> FALSE, val |-> [typecode |-> tc, q |-> q, ots |-> otsig, path |-> path]]

\* LmsSignature.ToBytes(); sig.path[i] beyond len(sig.path) is an index out of range
LmsSigToBytes(sig) ==
  IF LmsType(sig.typecode).err \/ LmsParams(sig.typecode).err
  THEN [err |-> TRUE, panic |-> FALSE, val |-> << >>]
  ELSE LET ots_sig == OtsSigToBytes(sig.ots)
       IN IF ots_sig.panic THEN [err |-> FALSE, panic |-> TRUE, val |-> << >>]
          ELSE IF ots_sig.err THEN [err |-> TRUE, panic |-> FALSE, val |-> << >>]
          ELSE IF Len(sig.path) < LmsParams(sig.typecode).H
               THEN [err |-> FALSE, panic |-> TRUE, val |-> << >>]
          ELSE [err |-> FALSE, panic |-> FALSE,
                val |-> AppendAll(Join(Join(BE32(sig.q), ots_sig.val), BE32(sig.typecode)),
                                  sig.path, 0, LmsParams(sig.typecode).H)]

LmsSigFail == [err |-> TRUE, panic |-> FALSE, val |-> NoLmsSignature]

\* LmsSignatureFromBytes(b); b[otsigmax : otsigmax+4] beyond len(b) is a slice
\* out of range
LmsSignatureFromBytes(b) ==
  IF ByteLen(b) < 8 THEN LmsSigFail
  ELSE IF LmsOtsType(Uint32(Slice(b, 4, 8))).err THEN LmsSigFail
  ELSE IF LmsOtsSigLength(Uint32(Slice(b, 4, 8))).err THEN LmsSigFail
  ELSE LET otstc == Uint32(Slice(b, 4, 8))
           otsigmax == 4 + LmsOtsSigLength(otstc).val
       IN IF 4 + ByteLen(b) <= otsigmax THEN LmsSigFail
          ELSE IF ByteLen(b) < otsigmax + 4
               THEN [err |-> FALSE, panic |-> TRUE, val |-> NoLmsSignature]
          ELSE IF LmsType(Uint32(Slice(b, otsigmax, otsigmax + 4))).err THEN LmsSigFail
          ELSE IF LmsSigLength(Uint32(Slice(b, otsigmax, otsigmax + 4)), otstc).err
               THEN LmsSigFail
          ELSE IF LmsSigLength(Uint32(Slice(b, otsigmax, otsigmax + 4)), otstc).val
                    # ByteLen(b)
               THEN LmsSigFail
          ELSE IF LmsOtsSignatureFromBytes(Slice(b, 4, otsigmax)).err THEN LmsSigFail
          ELSE LET typecode == Uint32(Slice(b, otsigmax, otsigmax + 4))
                   lmsparams == LmsParams(typecode)
               IN IF lmsparams.err THEN LmsSigFail
                  ELSE IF Uint32(Slice(b, 0, 4)) >= Pow2(lmsparams.H) THEN LmsSigFail
                  ELSE [err |-> FALSE, panic |-> FALSE,
                        val |-> [typecode |-> typecode,
                                 q |-> Uint32(Slice(b, 0, 4)),
                                 ots |-> LmsOtsSignatureFromBytes(Slice(b, 4, otsigmax)).val,
                                 path |-> [i \in 1..lmsparams.H |->
                                             Slice(b, otsigmax + 4 + (i - 1) * lmsparams.M,
                                                   otsigmax + 4 + i * lmsparams.M)]
                                          \o << >>]]

\* ------------------------------------------------------------------------
\* State
\* ------------------------------------------------------------------------
VARIABLES
  okey,    \* an LmsOtsPrivateKey
  opub,    \* the LmsOtsPublicKey that Public() returned for okey, if any
  osig,    \* the LmsOtsSignature that Sign returned for okey, and its message
  oret,    \* outcome of the latest call on okey
  osigns,  \* number of Sign calls on okey that returned a signature
  priv,    \* an LmsPrivateKey
  origin,  \* how priv was created, and the bytes it was loaded from
  q0,      \* the counter of priv when it was created
  lsig,    \* the latest LmsSignature that Sign returned for priv, and its message
  lret,    \* the latest call on priv: its name, outcome and the counter it found
  lsigns,  \* number of Sign calls on priv that returned a signature
  arg,     \* the argument of a call to a function of the packages
  ret      \* the latest function called with arg, and what it returned

ovars == <<okey, opub, osig, oret, osigns>>
lvars == <<priv, origin, q0, lsig, lret, lsigns>>
fvars == <<arg, ret>>
vars == <<okey, opub, osig, oret, osigns, priv, origin, q0, lsig, lret, lsigns, arg, ret>>

\* ------------------------------------------------------------------------
\* Inputs
\* ------------------------------------------------------------------------
\* bytes from a random source: n bytes of stream HashPrime + k
RandomBytes(k, n) == <<Seg(HashPrime + k, 0, n)>>

TheId == RandomBytes(1, ID_LEN)
TheSeed == RandomBytes(2, Sha256Size)
Messages == {Raw(101, 1), Join(Raw(101, 1), Raw(120, 1))}

\* an io.Reader: Read fails, or delivers the bytes of data
Readers == {[err |-> TRUE, data |-> << >>],
            [err |-> FALSE, data |-> RandomBytes(3, Sha256Size)]}

\* the readers handed to Sign of package ots: those of Readers and one whose
\* Read delivers ID_LEN bytes, fewer than the nonce has, and returns no error
OtsReaders == Readers \cup {[err |-> FALSE, data |-> RandomBytes(3, ID_LEN)]}

OtsTypecodes == lmotsTypecodeFirst..lmotsTypecodeLast

\* the LMS typecodes explored, and the LM-OTS typecodes they are paired with
LmsTypecodes == {tc \in lmsTypecodeFirst..lmsTypecodeLast : LmsParams(tc).H <= MaxHeight}
LmsOtsTypecodes == {tc \in OtsTypecodes : Params(tc).W = 1}
LmsMessages == {Raw(101, 1)}

\* the seed NewPrivateKey draws for typecode tc: M random bytes
SeedFor(tc) == RandomBytes(2, LmsParams(tc).M)

\* a stored private key: be32(tc) || be32(otstc) || be32(q) || id || seed
StoredKey(tc, otstc, q) ==
  Join(Join(Join(Join(BE32(tc), BE32(otstc)), BE32(q)), TheId), SeedFor(tc))

\* 2^H of LMS typecode tc
LeavesOf(tc) == Pow2(LmsParams(tc).H)

\* byte strings handed to LmsPrivateKeyFromBytes, for the typecode pairs of
\* different widths: with M = 32 a stored key three signatures short of
\* exhaustion that is followed by a stray byte, and the first 40 bytes of a
\* stored key; with M = 24 a stored key beyond exhaustion
StoredKeys ==
  UNION {IF LmsParams(tc).M = Params(otstc).N THEN {}
         ELSE IF LmsParams(tc).M = Sha256Size
         THEN {Join(StoredKey(tc, otstc, LeavesOf(tc) - 3), Raw(0, 1)),
               Slice(StoredKey(tc, otstc, 0), 0, 40)}
         ELSE {StoredKey(tc, otstc, LeavesOf(tc) + 8)}
         : tc \in LmsTypecodes, otstc \in LmsOtsTypecodes}

NoOrigin == [kind |-> "none", b |-> << >>]
NoLmsSig == [has |-> FALSE, val |-> NoLmsSignature, msg |-> << >>]
NoLmsRet ==
  [op |-> "none", err |-> FALSE, panic |-> FALSE, q |-> 0, rngerr |-> FALSE, out |-> << >>]
NoRet == [op |-> "none", err |-> FALSE, panic |-> FALSE, val |-> << >>]

NoOtsSig ==
  [has |-> FALSE, val |-> NoOtsSignature, msg |-> << >>, rng |-> [err |-> FALSE, data |-> << >>]]

\* no LM-OTS key, no LMS key, no function call
NoOtsKey ==
  /\ okey = NoOtsPrivateKey
  /\ opub = [has |-> FALSE, val |-> NoOtsPublicKey]
  /\ osig = NoOtsSig
  /\ oret = [op |-> "none", err |-> FALSE, panic |-> FALSE]
  /\ osigns = 0
NoLmsKey ==
  /\ priv = NoLmsPrivateKey
  /\ origin = NoOrigin
  /\ q0 = 0
  /\ lsig = NoLmsSig
  /\ lret = NoLmsRet
  /\ lsigns = 0
NoCall ==
  /\ arg = << >>
  /\ ret = NoRet

\* ------------------------------------------------------------------------
\* The life of one LM-OTS private key
\* ------------------------------------------------------------------------
OtsInit ==
  /\ \E tc \in OtsTypecodes, q \in 0..MaxOtsQ :
       okey = OtsNewPrivateKeyFromSeed(tc, q, TheId, TheSeed).val
  /\ opub = [has |-> FALSE, val |-> NoOtsPublicKey]
  /\ osig = NoOtsSig
  /\ oret = [op |-> "new", err |-> FALSE, panic |-> FALSE]
  /\ osigns = 0
  /\ NoLmsKey
  /\ NoCall

\* okey.Public()
OtsCallPublic ==
  /\ ~oret.panic
  /\ LET r == OtsPublic(okey)
     IN /\ oret' = [op |-> "Public", err |-> r.err, panic |-> r.panic]
        /\ opub' = IF r.err \/ r.panic THEN opub ELSE [has |-> TRUE, val |-> r.val]
  /\ UNCHANGED <<okey, osig, osigns>>
  /\ UNCHANGED <<lvars, fvars>>

\* okey.Sign(msg, rng)
OtsCallSign(msg, rng) ==
  /\ ~oret.panic
  /\ LET r == OtsSign(okey, msg, rng)
     IN /\ oret' = [op |-> "Sign", err |-> r.err, panic |-> FALSE]
        /\ okey' = r.key
        /\ osig' = IF r.err THEN osig
                   ELSE [has |-> TRUE, val |-> r.val, msg |-> msg, rng |-> rng]
        /\ osigns' = IF r.err THEN osigns ELSE osigns + 1
  /\ UNCHANGED opub
  /\ UNCHANGED <<lvars, fvars>>

OtsNext ==
  \/ OtsCallPublic
  \/ \E msg \in Messages, rng \in OtsReaders : OtsCallSign(msg, rng)

SpecOts == OtsInit /\ [][OtsNext]_vars

\* ------------------------------------------------------------------------
\* The life of one LMS private key
\* ------------------------------------------------------------------------
\* the key comes from NewPrivateKeyFromSeed (as NewPrivateKey calls it) or from
\* LmsPrivateKeyFromBytes
LmsCreated(key, o) ==
  /\ priv = key
  /\ origin = o
  /\ q0 = key.q
  /\ lsig = NoLmsSig
  /\ lret = [NoLmsRet EXCEPT !.op = "new", !.q = key.q]
  /\ lsigns = 0
  /\ NoOtsKey
  /\ NoCall

Init ==
  \/ \E tc \in LmsTypecodes, otstc \in LmsOtsTypecodes :
       /\ LmsParams(tc).M = Params(otstc).N
       /\ LmsCreated(LmsNewPrivateKeyFromSeed(tc, otstc, TheId, SeedFor(tc)).val,
                     [kind |-> "seed", b |-> << >>])
  \/ \E b \in StoredKeys :
       LET loaded == LmsPrivateKeyFromBytes(b)
       IN /\ ~loaded.err
          /\ LmsCreated(loaded.val, [kind |-> "bytes", b |-> b])

\* priv.Sign(msg, rng)
LmsCallSign(msg, rng) ==
  /\ ~lret.panic
  /\ LET r == LmsSign(priv, msg, rng)
     IN /\ priv' = r.key
        /\ lret' = [op |-> "Sign", err |-> r.err, panic |-> r.panic, q |-> priv.q,
                    rngerr |-> rng.err, out |-> << >>]
        /\ lsig' = IF r.err \/ r.panic THEN lsig
                   ELSE [has |-> TRUE, val |-> r.val, msg |-> msg]
        /\ lsigns' = IF r.err \/ r.panic THEN lsigns ELSE lsigns + 1
  /\ UNCHANGED <<origin, q0>>
  /\ UNCHANGED <<ovars, fvars>>

\* a call that only reads the key and returns out
LmsRead(op, err, panic, out) ==
  /\ ~lret.panic
  /\ lret' = [op |-> op, err |-> err, panic |-> panic, q |-> priv.q, rngerr |-> FALSE,
              out |-> out]
  /\ UNCHANGED <<priv, origin, q0, lsig, lsigns>>
  /\ UNCHANGED <<ovars, fvars>>

\* priv.ToBytes()
LmsCallToBytes == LmsRead("ToBytes", FALSE, FALSE, LmsPrivToBytes(priv))

\* priv.Public()
LmsCallPublic == LmsRead("Public", FALSE, FALSE, LmsPublic(priv))

\* priv.Q()
LmsCallQ == LmsRead("Q", FALSE, FALSE, Q(priv))

\* sig.ToBytes() on the signature Sign returned
LmsCallSigToBytes ==
  /\ lsig.has
  /\ LET r == LmsSigToBytes(lsig.val)
     IN LmsRead("SigToBytes", r.err, r.panic, r.val)

Next ==
  \/ \E msg \in LmsMessages, rng \in Readers : LmsCallSign(msg, rng)
  \/ LmsCallToBytes
  \/ LmsCallPublic
  \/ LmsCallQ
  \/ LmsCallSigToBytes

Spec == Init /\ [][Next]_vars

\* ------------------------------------------------------------------------
\* Properties of the LMS private key (Spec)
\* ------------------------------------------------------------------------
\* 2^H of the key's LMS typecode
Leaves == Pow2(LmsParams(priv.typecode).H)

\* keys with a typecode outside the registry, as Sign would find them
UnknownTypecodes(key) ==
  {[key EXCEPT !.typecode = lmsTypecodeLast + 1], [key EXCEPT !.otstype = 0]}

\* C1: for a key from NewPrivateKeyFromSeed, after k successful Sign calls q
\* equals k (0 <= k <= 2^H); a successful Sign leaves q one above the value
\* it found, and the signature it returned carries the value it found.
C1_CounterCountsSigns ==
  origin.kind = "seed" =>
    /\ priv.q = lsigns
    /\ lsigns >= 0 /\ lsigns <= Leaves
    /\ (lret.op = "Sign" /\ ~lret.err /\ ~lret.panic) =>
         /\ priv.q = lret.q + 1
         /\ lsig.val.q = lret.q

C1_Witness ==
  /\ origin.kind = "seed"
  /\ lsigns = Leaves
  /\ lret.op = "Sign" /\ ~lret.err
  /\ lsig.val.q = Leaves - 1

\* C2 as stated: Sign succeeds exactly when the counter it finds is below 2^H.
C2_SucceedsIffBelowLeaves ==
  lret.op = "Sign" => ((~lret.err /\ ~lret.panic) <=> lret.q < Leaves)

\* C2, amended: Sign succeeds exactly when the counter it finds is below 2^H
\* and the reader delivers the nonce without error; a fresh key gives at most
\* 2^H signatures; at q >= 2^H every Sign returns an error and no signature
\* and leaves the key as it is, so the key stays exhausted.
C2_SignUntilExhausted ==
  /\ lret.op = "Sign" =>
       ((~lret.err /\ ~lret.panic) <=> (lret.q < Leaves /\ ~lret.rngerr))
  /\ (lret.op = "Sign" /\ lret.q >= Leaves) => lret.err
  /\ origin.kind = "seed" => lsigns <= Leaves
  /\ priv.q >= Leaves =>
       \A msg \in LmsMessages, rng \in Readers :
         /\ LmsSign(priv, msg, rng).err
         /\ LmsSign(priv, msg, rng).val = NoLmsSignature
         /\ LmsSign(priv, msg, rng).key = priv

C2_Witness ==
  /\ origin.kind = "seed"
  /\ lsigns = Leaves
  /\ lret.op = "Sign" /\ lret.err /\ ~lret.rngerr
  /\ priv.q = Leaves

\* C3: a Sign call that returns an error leaves q as it found it, whether
\* the key is exhausted, the reader fails inside the LM-OTS signing step, or
\* a typecode of the key is unknown.
C3_FailedSignKeepsCounter ==
  /\ (lret.op = "Sign" /\ lret.err) => priv.q = lret.q
  /\ \A key \in UnknownTypecodes(priv), msg \in LmsMessages, rng \in Readers :
       /\ LmsSign(key, msg, rng).err
       /\ LmsSign(key, msg, rng).key.q = priv.q

C3_Witness ==
  /\ lret.op = "Sign" /\ lret.err /\ lret.rngerr
  /\ lret.q < Leaves
  /\ lsigns > 0
  /\ priv.q = lret.q

\* C4: in every step on the key (Sign, ToBytes, Public, Q, serializing a
\* signature) q does not decrease; when Sign returns a signature the key's q
\* is already above the counter in the signature; and q moves only in a Sign
\* step that returns a signature, so nothing that fails follows the advance.
C4_CounterMonotone ==
  [][/\ priv'.q >= priv.q
     /\ (lret'.op = "Sign" /\ ~lret'.err /\ ~lret'.panic) => lsig'.val.q < priv'.q
     /\ priv'.q # priv.q => (lret'.op = "Sign" /\ ~lret'.err /\ ~lret'.panic)]_vars

C4_Witness ==
  /\ lret.op = "SigToBytes" /\ ~lret.err /\ ~lret.panic
  /\ lsigns >= 2
  /\ lsig.val.q < priv.q

\* C7: the signature Sign produced verifies under the key's Public() for the
\* signed message, for every key and every leaf index.
C7_LmsSignVerify ==
  lsig.has => LmsVerify(LmsPublic(priv), lsig.msg, lsig.val)

\* C8 as stated: the counter is always in 0 .. 2^H - 1.
C8_CounterBelowLeaves == priv.q >= 0 /\ priv.q < Leaves

\* C8, amended: the counter never falls below the value q0 the key was
\* created with (0, or the value stored in the loaded bytes, which is not
\* checked) and never exceeds the larger of 2^H and q0.
C8_CounterBounded ==
  /\ q0 >= 0
  /\ origin.kind = "seed" => q0 = 0
  /\ priv.q >= q0
  /\ priv.q <= (IF Leaves > q0 THEN Leaves ELSE q0)

C8_Witness ==
  /\ origin.kind = "bytes"
  /\ q0 < Leaves
  /\ priv.q = Leaves
  /\ lret.op = "Sign" /\ lret.err

\* the round trips of the wire formats
OtsPubRoundTrip(pub) ==
  LmsOtsPublicKeyFromBytes(OtsPubToBytes(pub)) = [err |-> FALSE, val |-> pub]
OtsSigRoundTrip(sig) ==
  /\ ~OtsSigToBytes(sig).err /\ ~OtsSigToBytes(sig).panic
  /\ LmsOtsSignatureFromBytes(OtsSigToBytes(sig).val) = [err |-> FALSE, val |-> sig]
LmsPubRoundTrip(pub) ==
  LmsPublicKeyFromBytes(LmsPubToBytes(pub)) = [err |-> FALSE, val |-> pub]
LmsSigRoundTrip(sig) ==
  /\ ~LmsSigToBytes(sig).err /\ ~LmsSigToBytes(sig).panic
  /\ LmsSignatureFromBytes(LmsSigToBytes(sig).val)
       = [err |-> FALSE, panic |-> FALSE, val |-> sig]

\* C9: the parser applied to ToBytes(x) returns x, for the LMS public key of
\* the key, the LMS signature Sign returned and the LM-OTS signature in it.
C9_PublicRoundTrip ==
  /\ LmsPubRoundTrip(LmsPublic(priv))
  /\ lsig.has => OtsSigRoundTrip(lsig.val.ots)
  /\ lsig.has => LmsSigRoundTrip(lsig.val)

\* C10: for bytes b that LmsPrivateKeyFromBytes accepted, ToBytes of the
\* loaded key is b and Q() is the counter stored in b; and loading
\* ToBytes() of a key gives the same key again, tree included.
C10_PrivateRoundTrip ==
  /\ (origin.kind = "bytes" /\ lret.op = "new") =>
       /\ LmsPrivToBytes(priv) = origin.b
       /\ Q(priv) = Uint32(Slice(origin.b, 8, 12))
  /\ lret.op = "new" =>
       LmsPrivateKeyFromBytes(LmsPrivToBytes(priv)) = [err |-> FALSE, val |-> priv]

\* ------------------------------------------------------------------------
\* Properties of the LM-OTS private key (SpecOts)
\* ------------------------------------------------------------------------
\* C5: an LM-OTS private key signs at most once: after one successful Sign
\* the key is invalid (valid = FALSE, x erased) and every later Sign, for any
\* message and any reader, returns an error and no signature.
C5_OtsSingleUse ==
  /\ osigns <= 1
  /\ osigns = 1 => /\ ~okey.valid
                   /\ okey.x = << >>
                   /\ \A msg \in Messages, rng \in Readers :
                        /\ OtsSign(okey, msg, rng).err
                        /\ OtsSign(okey, msg, rng).val = NoOtsSignature

C5_Witness == osigns = 1 /\ oret.op = "Sign" /\ oret.err

\* C6: the public key taken from a seed-derived private key verifies the
\* signature that private key produces on the message, for every registered
\* LM-OTS typecode.
C6_OtsSignVerify ==
  (opub.has /\ osig.has) => OtsVerify(opub.val, osig.msg, osig.val)

C6_Witness == opub.has /\ osig.has /\ okey.typecode = 4 /\ okey.q = MaxOtsQ

\* ------------------------------------------------------------------------
\* The parsers applied to byte strings (SpecParse)
\* ------------------------------------------------------------------------
\* a byte string of n bytes: the first n bytes of head, or head followed by
\* bytes of value 0x5A
Padded(head, n) ==
  IF n <= ByteLen(head) THEN Slice(head, 0, n)
  ELSE Join(head, Raw(90, n - ByteLen(head)))

\* the typecodes written into the byte strings: the registered ones and the
\* first value on either side of each range
WireOtsTypecodes == (lmotsTypecodeFirst - 1)..(lmotsTypecodeLast + 1)
WireLmsTypecodes == (lmsTypecodeFirst - 1)..(lmsTypecodeLast + 1)

\* N of LM-OTS typecode otstc and M of LMS typecode tc; the SHA-256 width
\* stands in where the typecode is not registered
WidthOfOts(otstc) == IF Params(otstc).err THEN Sha256Size ELSE Params(otstc).N
WidthOfLms(tc) == IF LmsParams(tc).err THEN Sha256Size ELSE LmsParams(tc).M

\* byte strings around the form be32(otstc) || id || be32(q) || k of an
\* LM-OTS public key: empty, 3 and 4 bytes, and one byte less than, exactly
\* and one byte more than 24 + N
OtsPubInputs ==
  {Padded(Join(BE32(otstc), TheId), n) :
     otstc \in WireOtsTypecodes,
     n \in {0, 3, 4} \cup (23 + Sha256Size - 8)..(25 + Sha256Size)}

\* byte strings around the form be32(tc) || be32(otstc) || id || k of an LMS
\* public key: 7 and 8 bytes, and one byte less than, exactly and one byte
\* more than 24 + M
LmsPubInputs ==
  UNION {{Padded(Join(Join(BE32(tc), BE32(otstc)), TheId), n) :
            n \in {7, 8, 23 + WidthOfLms(tc), 24 + WidthOfLms(tc), 25 + WidthOfLms(tc)}}
         : tc \in WireLmsTypecodes, otstc \in {0, 1, lmotsTypecodeLast, lmotsTypecodeLast + 1}}

\* byte strings around the form of a stored LMS private key: one byte less
\* than, exactly and one and seven bytes more than 28 + M for the typecode
\* pairs whose tree is built here, and 28 + 32 bytes with a typecode that is
\* not registered
LmsPrivInputs ==
  UNION {IF Params(otstc).N # WidthOfLms(tc) THEN {}
         ELSE {Padded(StoredKey(tc, otstc, 2), n) :
                 n \in {27 + WidthOfLms(tc), 28 + WidthOfLms(tc), 29 + WidthOfLms(tc),
                        35 + WidthOfLms(tc)}}
         : tc \in LmsTypecodes, otstc \in LmsOtsTypecodes}
  \cup {Padded(Join(Join(BE32(tc), BE32(otstc)), BE32(2)), 28 + Sha256Size) :
          tc \in {lmsTypecodeFirst - 1, lmsTypecodeLast + 1}, otstc \in {1}}
  \cup {Padded(Join(Join(BE32(tc), BE32(otstc)), BE32(2)), 28 + Sha256Size) :
          tc \in {lmsTypecodeFirst}, otstc \in {0, lmotsTypecodeLast + 1}}

\* the first bytes of an LMS signature: be32(q) || be32(otstc), and for a
\* registered otstc the rest of the LM-OTS signature and be32(tc)
LmsSigHead(q, otstc, tc) ==
  IF Params(otstc).err THEN Join(BE32(q), BE32(otstc))
  ELSE Join(Padded(Join(BE32(q), BE32(otstc)), 4 + Params(otstc).SIG_LEN), BE32(tc))

\* the length of an LMS signature with typecodes otstc and tc
LmsSigLen(otstc, tc) ==
  8 + (IF Params(otstc).err THEN 0 ELSE Params(otstc).SIG_LEN)
    + (IF LmsParams(tc).err THEN 0 ELSE LmsParams(tc).H * LmsParams(tc).M)

\* byte strings around the form be32(q) || ots signature || be32(tc) || path
\* of an LMS signature: 7 and 8 bytes, the lengths from the LM-OTS signature
\* length L to L + 8, and one byte less than, exactly and one byte more than
\* the whole length
LmsSigInputs ==
  UNION {{Padded(LmsSigHead(q, otstc, tc), n) :
            n \in {7, 8} \cup ((LmsSigLen(otstc, tc) - 8)..LmsSigLen(otstc, tc))
                 \cup {LmsSigLen(otstc, tc) - 1, LmsSigLen(otstc, tc), LmsSigLen(otstc, tc) + 1}}
         : q \in {1, Pow2(MaxHeight) + 1},
           otstc \in {0, 1, lmotsTypecodeLast, lmotsTypecodeLast + 1},
           tc \in {lmsTypecodeFirst - 1, lmsTypecodeFirst, lmsTypecodeLast}}

ParserInputs == OtsPubInputs \cup LmsPubInputs \cup LmsPrivInputs \cup LmsSigInputs

ParseInit ==
  /\ arg \in ParserInputs
  /\ ret = NoRet
  /\ NoOtsKey
  /\ NoLmsKey

\* a call of function op on arg that returned r
Called(op, r) ==
  /\ ret.op = "none"
  /\ ret' = [op |-> op, err |-> r.err, panic |-> r.panic, val |-> r.val]
  /\ UNCHANGED <<arg, ovars, lvars>>

\* ots.LmsOtsPublicKeyFromBytes(arg)
CallOtsPublicKeyFromBytes ==
  LET r == LmsOtsPublicKeyFromBytes(arg)
  IN Called("LmsOtsPublicKeyFromBytes", [err |-> r.err, panic |-> FALSE, val |-> r.val])

\* lms.LmsPublicKeyFromBytes(arg)
CallLmsPublicKeyFromBytes ==
  LET r == LmsPublicKeyFromBytes(arg)
  IN Called("LmsPublicKeyFromBytes", [err |-> r.err, panic |-> FALSE, val |-> r.val])

\* lms.LmsPrivateKeyFromBytes(arg)
CallLmsPrivateKeyFromBytes ==
  LET r == LmsPrivateKeyFromBytes(arg)
  IN Called("LmsPrivateKeyFromBytes", [err |-> r.err, panic |-> FALSE, val |-> r.val])

\* lms.LmsSignatureFromBytes(arg)
CallLmsSignatureFromBytes ==
  Called("LmsSignatureFromBytes", LmsSignatureFromBytes(arg))

ParseNext ==
  \/ CallOtsPublicKeyFromBytes
  \/ CallLmsPublicKeyFromBytes
  \/ CallLmsPrivateKeyFromBytes
  \/ CallLmsSignatureFromBytes

SpecParse == ParseInit /\ [][ParseNext]_vars

\* ------------------------------------------------------------------------
\* Properties of the parsers (SpecParse)
\* ------------------------------------------------------------------------
\* b has the length its typecode calls for as an LM-OTS public key
OtsPubCanonical(b) ==
  /\ ByteLen(b) >= 4
  /\ ~Params(Uint32(Slice(b, 0, 4))).err
  /\ ByteLen(b) = 4 + ID_LEN + 4 + Params(Uint32(Slice(b, 0, 4))).N

\* b has the length its two typecodes call for as an LMS signature
LmsSigCanonical(b) ==
  /\ ByteLen(b) >= 8
  /\ ~Params(Uint32(Slice(b, 4, 8))).err
  /\ ByteLen(b) >= 8 + Params(Uint32(Slice(b, 4, 8))).SIG_LEN
  /\ LET tcAt == 4 + Params(Uint32(Slice(b, 4, 8))).SIG_LEN
     IN /\ ~LmsParams(Uint32(Slice(b, tcAt, tcAt + 4))).err
        /\ ByteLen(b) = LmsSigLen(Uint32(Slice(b, 4, 8)), Uint32(Slice(b, tcAt, tcAt + 4)))

\* b has the length its two registered typecodes call for as an LMS key of
\* fixed part fixed (28 for the private key, 24 for the public key)
LmsKeyCanonical(b, fixed) ==
  /\ ByteLen(b) >= 8
  /\ ~LmsParams(Uint32(Slice(b, 0, 4))).err
  /\ ~Params(Uint32(Slice(b, 4, 8))).err
  /\ ByteLen(b) = fixed + LmsParams(Uint32(Slice(b, 0, 4))).M

\* C11: a byte string whose length is not the length its typecodes call for
\* makes LmsOtsPublicKeyFromBytes and LmsSignatureFromBytes return an error:
\* neither accepts it and neither reads beyond its end.
C11_NonCanonicalRejected ==
  /\ (ret.op = "LmsOtsPublicKeyFromBytes" /\ ~OtsPubCanonical(arg))
       => (ret.err /\ ~ret.panic)
  /\ (ret.op = "LmsSignatureFromBytes" /\ ~LmsSigCanonical(arg))
       => (ret.err /\ ~ret.panic)

\* C12: LmsPrivateKeyFromBytes returns a key only for 28 + M bytes with both
\* typecodes registered, LmsPublicKeyFromBytes only for 24 + M bytes with
\* both typecodes registered; every other input is an error.
C12_ParsersRejectBadLengths ==
  /\ (ret.op = "LmsPrivateKeyFromBytes" /\ ~LmsKeyCanonical(arg, 28)) => ret.err
  /\ (ret.op = "LmsPublicKeyFromBytes" /\ ~LmsKeyCanonical(arg, 24)) => ret.err

\* ------------------------------------------------------------------------
\* Verification of signatures (SpecVerify)
\* ------------------------------------------------------------------------
\* x with the lowest bit of byte k flipped
Flipped(x, k) ==
  Join(Join(Slice(x, 0, k),
            Raw(IF ByteVal(x, k) % 2 = 0 THEN ByteVal(x, k) + 1 ELSE ByteVal(x, k) - 1, 1)),
       Slice(x, k + 1, ByteLen(x)))

TheMessage == Raw(101, 1)
TheReader == [err |-> FALSE, data |-> RandomBytes(3, Sha256Size)]

\* the LMS private key whose signatures are verified
VerifyKey ==
  LmsNewPrivateKeyFromSeed(lmsTypecodeFirst, lmotsTypecodeFirst, TheId,
                           SeedFor(lmsTypecodeFirst)).val

\* the leaves of VerifyKey that sign
SignedLeaves == {0, LeavesOf(lmsTypecodeFirst) - 11}

\* the public key of VerifyKey, a message and the signature of leaf q on it
LmsTriple(q) ==
  [kind |-> "lms", pub |-> LmsPublic(VerifyKey), msg |-> TheMessage,
   sig |-> LmsSign([VerifyKey EXCEPT !.q = q], TheMessage, TheReader).val,
   changed |-> {}]

\* the public key of an LM-OTS key of typecode tc, a message and the key's
\* signature on it
OtsTriple(tc) ==
  LET key == OtsNewPrivateKeyFromSeed(tc, 0, TheId, TheSeed).val
  IN [kind |-> "ots", pub |-> OtsPublic(key).val, msg |-> TheMessage,
      sig |-> OtsSign(key, TheMessage, TheReader).val, changed |-> {}]

VerifyInit ==
  /\ arg \in {LmsTriple(q) : q \in SignedLeaves} \cup {OtsTriple(tc) : tc \in OtsTypecodes}
  /\ ret = NoRet
  /\ NoOtsKey
  /\ NoLmsKey

\* one part of the triple is changed before Verify is called
Change(what, new) ==
  /\ ret.op = "none"
  /\ arg' = [new EXCEPT !.changed = {what}]
  /\ UNCHANGED <<ret, ovars, lvars>>

\* Verify is called with another message
ChangeMessage ==
  /\ arg.changed = {}
  /\ \E m \in Messages : m # arg.msg /\ Change("message", [arg EXCEPT !.msg = m])

\* the counter q in the LMS signature is replaced
ChangeSigQ ==
  /\ arg.kind = "lms" /\ arg.changed = {}
  /\ \E q \in 0..(LeavesOf(arg.sig.typecode) - 1) :
       q # arg.sig.q /\ Change("q", [arg EXCEPT !.sig.q = q])

\* the counter q in the LM-OTS public key is replaced (ToBytes, a changed
\* byte, LmsOtsPublicKeyFromBytes)
ChangePubQ ==
  /\ arg.kind = "ots" /\ arg.changed = {}
  /\ \E q \in 0..MaxOtsQ : q # arg.pub.q /\ Change("q", [arg EXCEPT !.pub.q = q])

\* the LM-OTS signature of the triple, and the triple with another one
OtsSigOf(a) == IF a.kind = "lms" THEN a.sig.ots ELSE a.sig
WithOtsSig(a, otsig) ==
  IF a.kind = "lms" THEN [a EXCEPT !.sig.ots = otsig] ELSE [a EXCEPT !.sig = otsig]

\* one bit of the nonce c is flipped, in its first or in its last byte
ChangeNonce ==
  /\ arg.changed = {}
  /\ \E k \in {0, ByteLen(OtsSigOf(arg).c) - 1} :
       Change("c", WithOtsSig(arg, [OtsSigOf(arg) EXCEPT !.c = Flipped(@, k)]))

\* the chains whose y[i] is changed: the first and the last MaxChains of P
TamperedChains(P) == {i \in 1..P : i <= MaxChains \/ i > P - MaxChains}

\* one bit of one y[i] is flipped
ChangeY ==
  /\ arg.changed = {}
  /\ \E i \in TamperedChains(Len(OtsSigOf(arg).y)) :
       Change("y", WithOtsSig(arg, [OtsSigOf(arg) EXCEPT !.y[i] = Flipped(@, i % ByteLen(@))]))

\* one bit of one element of the authentication path is flipped, in its
\* first or in its last byte
ChangePath ==
  /\ arg.kind = "lms" /\ arg.changed = {}
  /\ \E i \in 1..Len(arg.sig.path), k \in {0, ByteLen(arg.sig.path[1]) - 1} :
       Change("path", [arg EXCEPT !.sig.path[i] = Flipped(@, k)])

\* an LM-OTS signature of typecode otstc as the parser returns it
ParsedOtsSignature(otstc) ==
  LmsOtsSignatureFromBytes(Padded(BE32(otstc), Params(otstc).SIG_LEN)).val

\* the paths handed to NewLmsSignature: the path of the signature, the path
\* without its last element, the path twice, empty elements, and short
\* elements for a tree of height 10
PathsFrom(path) ==
  {path, SubSeq(path, 1, Len(path) - 1), path \o path,
   [i \in 1..Len(path) |-> << >>] \o << >>,
   [i \in 1..(2 * Len(path)) |-> Raw(90, 3)] \o << >>}

\* the LMS signatures LmsSignatureFromBytes returns for the byte strings of
\* LmsSigInputs
ParsedSignatures ==
  {r.val : r \in {x \in {LmsSignatureFromBytes(b) : b \in LmsSigInputs} :
                    ~x.err /\ ~x.panic}}

\* the LMS signatures a caller builds with NewLmsSignature from the parts of
\* sig and from a parsed LM-OTS signature of another typecode, and those
\* LmsSignatureFromBytes returns
SignaturesFrom(sig) ==
  {r.val : r \in {x \in {NewLmsSignature(tc, q, otsig, path) :
                           tc \in {lmsTypecodeFirst, lmsTypecodeFirst + 1, lmsTypecodeFirst + 5},
                           q \in {sig.q},
                           otsig \in {sig.ots, ParsedOtsSignature(lmotsTypecodeLast)},
                           path \in PathsFrom(sig.path)} : ~x.err}}
  \cup ParsedSignatures

\* the LMS public keys a caller builds with NewPublicKey around pub
PublicKeysFrom(pub) ==
  {r.val : r \in {x \in {NewPublicKey(tc, otstc, pub.id, k) :
                           tc \in {lmsTypecodeFirst, lmsTypecodeFirst + 1, lmsTypecodeFirst + 5},
                           otstc \in {lmotsTypecodeFirst, lmotsTypecodeLast},
                           k \in {pub.k, Raw(90, 8), Raw(90, 7)}} : ~x.err}}

\* the LM-OTS typecodes of the values that replace one of typecode otstc:
\* otstc itself and the typecode of the other hash width
OtherOtsTypecodes(otstc) == {otstc, lmotsTypecodeFirst + lmotsTypecodeLast - otstc}

\* the signature of the call is replaced by another one the caller holds
ReplaceSignature ==
  /\ ret.op = "none"
  /\ arg.changed \subseteq {"public key"}
  /\ \E sig \in IF arg.kind = "lms" THEN SignaturesFrom(arg.sig)
                ELSE {ParsedOtsSignature(otstc) : otstc \in OtherOtsTypecodes(arg.sig.typecode)} :
       /\ sig # arg.sig
       /\ arg' = [arg EXCEPT !.sig = sig, !.changed = @ \cup {"signature"}]
  /\ UNCHANGED <<ret, ovars, lvars>>

\* Verify is called on another public key the caller holds
ReplacePublicKey ==
  /\ ret.op = "none"
  /\ arg.changed \subseteq {"signature"}
  /\ \E pub \in IF arg.kind = "lms" THEN PublicKeysFrom(arg.pub)
                ELSE {r.val : r \in {x \in {LmsOtsPublicKeyFromBytes(
                                              Padded(Join(BE32(otstc), arg.pub.id),
                                                     24 + WidthOfOts(otstc))) :
                                              otstc \in OtherOtsTypecodes(arg.pub.typecode)} :
                                        ~x.err}} :
       /\ pub # arg.pub
       /\ arg' = [arg EXCEPT !.pub = pub, !.changed = @ \cup {"public key"}]
  /\ UNCHANGED <<ret, ovars, lvars>>

\* arg.pub.Verify(arg.msg, arg.sig) of package lms
CallLmsVerify ==
  /\ arg.kind = "lms"
  /\ LET r == LmsVerifyRun(arg.pub, arg.msg, arg.sig)
     IN Called("Verify", [err |-> FALSE, panic |-> r.panic,
                          val |-> [ok |-> r.val, read |-> r.read]])

\* arg.pub.Verify(arg.msg, arg.sig) of package ots
CallOtsVerify ==
  /\ arg.kind = "ots"
  /\ Called("Verify", [err |-> FALSE, panic |-> FALSE,
                       val |-> [ok |-> OtsVerify(arg.pub, arg.msg, arg.sig), read |-> 0]])

VerifyNext ==
  \/ ChangeMessage
  \/ ChangeSigQ
  \/ ChangePubQ
  \/ ChangeNonce
  \/ ChangeY
  \/ ChangePath
  \/ ReplaceSignature
  \/ ReplacePublicKey
  \/ CallLmsVerify
  \/ CallOtsVerify

SpecVerify == VerifyInit /\ [][VerifyNext]_vars

\* ------------------------------------------------------------------------
\* Properties of verification (SpecVerify)
\* ------------------------------------------------------------------------
\* LM-OTS signatures with a part of the wrong length: c one byte short, y one
\* element short, y[1] one byte short
Malformed(otsig) ==
  {[otsig EXCEPT !.c = Slice(@, 0, ByteLen(@) - 1)],
   [otsig EXCEPT !.y = SubSeq(@, 1, Len(@) - 1)],
   [otsig EXCEPT !.y[1] = Slice(@, 0, ByteLen(@) - 1)]}

\* C13: Verify of package lms and of package ots returns a boolean and never
\* panics, for every public key and signature that Sign, Public, the
\* FromBytes parsers, NewPublicKey and NewLmsSignature return without error,
\* whatever their parameter sets and whatever the bytes of the path; an
\* LM-OTS signature whose c, y or y[i] has the wrong length makes
\* RecoverPublicKey fail, and NewLmsSignature refuses a path that does not
\* have H elements.
C13_VerifyReturnsBoolean ==
  /\ ret.op = "Verify" => (~ret.panic /\ ret.val.ok \in BOOLEAN)
  /\ \A bad \in Malformed(OtsSigOf(arg)) :
       ~RecoverPublicKey(bad, arg.msg, bad.typecode, arg.pub.id,
                         IF arg.kind = "lms" THEN arg.sig.q ELSE arg.pub.q).ok
  /\ (arg.kind = "lms" /\ ~LmsParams(arg.sig.typecode).err) =>
       \A path \in PathsFrom(arg.sig.path) :
         Len(path) # LmsParams(arg.sig.typecode).H =>
           NewLmsSignature(arg.sig.typecode, arg.sig.q, arg.sig.ots, path).err

C13_Witness ==
  /\ ret.op = "Verify" /\ arg.kind = "lms"
  /\ arg.changed = {"signature", "public key"}
  /\ arg.pub.typecode = lmsTypecodeFirst + 1
  /\ ByteLen(arg.sig.path[1]) = 3
  /\ ret.val.read = 10
  /\ ~ret.val.ok

\* C14: when the LMS typecode of the signature differs from that of the
\* public key, or the typecode of the LM-OTS signature inside differs from
\* the key's otstype, LMS Verify returns false and has read no element of
\* the path.
C14_MismatchRejectedEarly ==
  (/\ ret.op = "Verify" /\ arg.kind = "lms"
   /\ \/ arg.sig.typecode # arg.pub.typecode
      \/ arg.sig.ots.typecode # arg.pub.otstype)
    => (~ret.val.ok /\ ~ret.panic /\ ret.val.read = 0)

C14_Witness ==
  /\ ret.op = "Verify" /\ arg.kind = "lms"
  /\ arg.sig.typecode = arg.pub.typecode
  /\ arg.sig.ots.typecode # arg.pub.otstype
  /\ Len(arg.sig.path) = LmsParams(arg.pub.typecode).H
  /\ ~ret.val.ok /\ ret.val.read = 0

\* C15: the triples of Public() and Sign verify, and a triple that differs
\* from one of them in the message, in q, in one bit of the nonce c, in one
\* bit of a y[i] or in one bit of a path element does not verify.
C15_TamperedTripleRejected ==
  ret.op = "Verify" =>
    /\ arg.changed = {} => ret.val.ok
    /\ arg.changed \in {{"message"}, {"q"}, {"c"}, {"y"}, {"path"}} => ~ret.val.ok

C15_Witness ==
  /\ ret.op = "Verify" /\ arg.kind = "lms"
  /\ arg.changed = {"path"}
  /\ arg.sig.q > 0
  /\ ret.val.read = LmsParams(arg.pub.typecode).H
  /\ ~ret.val.ok

\* ------------------------------------------------------------------------
\* The typecode registry (SpecRegistry)
\* ------------------------------------------------------------------------
\* the uint32 values looked up: 0 .. MaxTypecode, the registered typecodes
\* with a higher byte set, and the largest value below 2^31
RegistryInputs ==
  0..MaxTypecode
  \cup {256 * k + x : k \in {1, 65536}, x \in {lmotsTypecodeFirst, lmsTypecodeFirst,
                                               lmotsTypecodeLast, lmsTypecodeLast}}
  \cup {2147483647}

RegistryInit ==
  /\ arg \in RegistryInputs
  /\ ret = NoRet
  /\ NoOtsKey
  /\ NoLmsKey

\* lmsTypecode(arg).LmsType()
CallLmsType ==
  Called("LmsType", [err |-> LmsType(arg).err, panic |-> FALSE, val |-> LmsType(arg).val])

\* lmotsTypecode(arg).LmsOtsType()
CallLmsOtsType ==
  Called("LmsOtsType",
         [err |-> LmsOtsType(arg).err, panic |-> FALSE, val |-> LmsOtsType(arg).val])

\* lmsTypecode(arg).LmsParams()
CallLmsParams ==
  Called("LmsParams", [err |-> LmsParams(arg).err, panic |-> FALSE, val |-> LmsParams(arg)])

\* lmotsTypecode(arg).Params()
CallParams ==
  Called("Params", [err |-> Params(arg).err, panic |-> FALSE, val |-> Params(arg)])

RegistryNext ==
  \/ CallLmsType
  \/ CallLmsOtsType
  \/ CallLmsParams
  \/ CallParams

SpecRegistry == RegistryInit /\ [][RegistryNext]_vars

\* ------------------------------------------------------------------------
\* Properties of the registry (SpecRegistry)
\* ------------------------------------------------------------------------
\* ceil(a / b), and floor(lg(a)) for a >= 1
CeilDiv(a, b) == (a + b - 1) \div b
RECURSIVE FloorLg(_)
FloorLg(a) == IF a <= 1 THEN 0 ELSE 1 + FloorLg(a \div 2)

\* C16: Params() succeeds exactly for the values 0x01..0x08 and LmsParams()
\* exactly for 0x05..0x0E, every other value is an error; LmsOtsType() and
\* LmsType() accept exactly the values whose lookup succeeds, and return the
\* value unchanged.
C16_LookupTotalOnRegistered ==
  /\ ret.op = "Params" => (~ret.err <=> arg \in 1..8)
  /\ ret.op = "LmsParams" => (~ret.err <=> arg \in 5..14)
  /\ ret.op = "LmsOtsType" => ((~ret.err <=> ~Params(arg).err) /\ ret.val = arg)
  /\ ret.op = "LmsType" => ((~ret.err <=> ~LmsParams(arg).err) /\ ret.val = arg)

C16_Witness == ret.op = "LmsType" /\ arg = 14 /\ ~ret.err

\* C17: in every LM-OTS entry, with u = ceil(8N/W) and
\* v = ceil((floor(lg((2^W - 1) * u)) + 1) / W): P = u + v, LS = 16 - W * (P - u)
\* and SIG_LEN = 4 + N + P * N; LMS typecodes 0x05..0x09 have M = 32 and
\* 0x0A..0x0E have M = 24, each with the heights 5, 10, 15, 20, 25 in order.
C17_RegistryConsistent ==
  /\ (ret.op = "Params" /\ ~ret.err) =>
       LET e == ret.val
           u == CeilDiv(8 * e.N, e.W)
       IN /\ e.P = u + CeilDiv(FloorLg((Pow2(e.W) - 1) * u) + 1, e.W)
          /\ e.LS = 16 - e.W * (e.P - u)
          /\ e.SIG_LEN = 4 + e.N + e.P * e.N
  /\ (ret.op = "LmsParams" /\ ~ret.err) =>
       /\ ret.val.M = (IF arg <= 9 THEN 32 ELSE 24)
       /\ ret.val.H = 5 * (((arg - 5) % 5) + 1)

C17_Witness == ret.op = "Params" /\ arg = 5 /\ ~ret.err /\ ret.val.LS = 8

\* ------------------------------------------------------------------------
\* Coefs and Expand applied to byte strings (SpecDigits)
\* ------------------------------------------------------------------------
\* the byte string of the tests of Coefs: 0x12 0x34
CoefTestBytes == Join(Raw(18, 1), Raw(52, 1))

\* byte strings of n bytes: all 0x00, all 0xFF, 0x00 with a last byte 0xFF,
\* 0xFF with a last byte 0x00, and the first n bytes of MaxDigests digests
BytesOfLen(n) ==
  IF n = 0 THEN {<< >>}
  ELSE {Raw(0, n), Raw(255, n), Join(Raw(0, n - 1), Raw(255, 1)),
        Join(Raw(255, n - 1), Raw(0, 1))}
       \cup {HashSum(HashWrite(HashNew, BE32(k)), n) : k \in 1..MaxDigests}

\* the arguments of Coefs and Expand: a byte string and an LM-OTS typecode
DigitInputs ==
  {[x |-> x, mode |-> mode] :
     x \in {CoefTestBytes} \cup UNION {BytesOfLen(n) : n \in {0, 1, 3, 24, Sha256Size}},
     mode \in OtsTypecodes}

DigitsInit ==
  /\ arg \in DigitInputs
  /\ ret = NoRet
  /\ NoOtsKey
  /\ NoLmsKey

\* Coefs(arg.x, W) with the window of arg.mode
CallCoefs ==
  Called("Coefs", [err |-> FALSE, panic |-> FALSE,
                   val |-> Coefs(arg.x, Params(arg.mode).W)])

\* Expand(arg.x, arg.mode) on a digest of N bytes, as every caller hands it
CallExpand ==
  /\ ByteLen(arg.x) = Params(arg.mode).N
  /\ Called("Expand", [err |-> Expand(arg.x, arg.mode).err, panic |-> FALSE,
                       val |-> Expand(arg.x, arg.mode).val])

DigitsNext ==
  \/ CallCoefs
  \/ CallExpand

SpecDigits == DigitsInit /\ [][DigitsNext]_vars

\* ------------------------------------------------------------------------
\* Properties of Coefs and Expand (SpecDigits)
\* ------------------------------------------------------------------------
\* the byte made of digits k*(8/w)+1 .. k*(8/w)+(8/w) of digits, the first
\* digit in the highest bits; j digits are still to be added
RECURSIVE PackByte(_, _, _, _)
PackByte(digits, w, k, j) ==
  IF j = 0 THEN 0
  ELSE PackByte(digits, w, k, j - 1) * Pow2(w) + digits[k * (8 \div w) + j]

\* the sum of 2^w - 1 - digit over digits from+1 .. to, as an integer
RECURSIVE DigitSum(_, _, _, _)
DigitSum(digits, w, from, to) ==
  IF from >= to THEN 0
  ELSE IF to = from + 1 THEN Pow2(w) - 1 - digits[to]
  ELSE DigitSum(digits, w, from, Mid(from, to)) + DigitSum(digits, w, Mid(from, to), to)

\* C18: Coefs(x, W) has len(x) * (8/W) digits, each in 0 .. 2^W - 1, and
\* packing each group of 8/W digits, first digit in the highest bits, gives
\* the bytes of x back; for 0x12 0x34 the digits are those of the tests.
C18_CoefsDigits ==
  ret.op = "Coefs" =>
    LET w == Params(arg.mode).W
    IN /\ Len(ret.val) = ByteLen(arg.x) * (8 \div w)
       /\ \A i \in 1..Len(ret.val) : ret.val[i] >= 0 /\ ret.val[i] < Pow2(w)
       /\ \A k \in 0..(ByteLen(arg.x) - 1) :
            PackByte(ret.val, w, k, 8 \div w) = ByteVal(arg.x, k)
       /\ arg.x = CoefTestBytes =>
            ret.val = CASE w = 1 -> <<0, 0, 0, 1, 0, 0, 1, 0, 0, 0, 1, 1, 0, 1, 0, 0>>
                        [] w = 2 -> <<0, 1, 0, 2, 0, 3, 1, 0>>
                        [] w = 4 -> <<1, 2, 3, 4>>
                        [] w = 8 -> <<18, 52>>

C18_Witness ==
  /\ ret.op = "Coefs" /\ arg.mode = 2
  /\ arg.x = CoefTestBytes
  /\ ret.val = <<0, 1, 0, 2, 0, 3, 1, 0>>

\* C19: for a registered typecode and a digest of N bytes, Expand returns P
\* digits: the digits of the digest and then those of the checksum; the sum
\* of 2^W - 1 - digit shifted left by LS is below 2^16, and the digits of the
\* shifted checksum after the first P digits are all zero.
C19_ExpandLosesNothing ==
  (ret.op = "Expand" /\ ByteLen(arg.x) = Params(arg.mode).N) =>
    LET e == Params(arg.mode)
        msgDigits == Coefs(arg.x, e.W)
        sum == DigitSum(msgDigits, e.W, 0, Len(msgDigits))
        sumDigits == Coefs(BE16(sum * Pow2(e.LS)), e.W)
    IN /\ ~ret.err
       /\ Len(ret.val) = e.P
       /\ sum * Pow2(e.LS) < 65536
       /\ e.P >= Len(msgDigits) /\ e.P <= Len(msgDigits) + Len(sumDigits)
       /\ ret.val = msgDigits \o SubSeq(sumDigits, 1, e.P - Len(msgDigits))
       /\ \A i \in (e.P - Len(msgDigits) + 1)..Len(sumDigits) : sumDigits[i] = 0

C19_Witness ==
  /\ ret.op = "Expand" /\ arg.mode = 5
  /\ arg.x = Raw(0, 24)
  /\ Len(ret.val) = 200
  /\ ret.val[193] = 1 /\ ret.val[194] = 1 /\ ret.val[195] = 0

\* ------------------------------------------------------------------------
\* GeneratePKTree one write at a time (SpecTree)
\* ------------------------------------------------------------------------
\* arg is the argument list of GeneratePKTree; ret.val holds the locals of the
\* running call: pc ("leaf": at the head of the outer loop, "fold": at the
\* head of the inner loop, "done": returned), authtree, i, r and j.

\* the typecode pairs handed to GeneratePKTree: the trees of height up to
\* MaxHeight with the LM-OTS types of window 1 and of the same width, and
\* pairs with a typecode that is not registered
TreeInputs ==
  {a \in {[tc |-> tc, otstc |-> otstc, id |-> TheId, seed |-> TheSeed] :
            tc \in LmsTypecodes \cup {0},
            otstc \in {o \in OtsTypecodes : Params(o).W = 1} \cup {0}} :
     \/ LmsParams(a.tc).err
     \/ Params(a.otstc).err
     \/ Params(a.otstc).N = LmsParams(a.tc).M}

TreeInit ==
  /\ arg \in TreeInputs
  /\ ret = NoRet
  /\ NoOtsKey
  /\ NoLmsKey

TreeRet(err, val) == [op |-> "GeneratePKTree", err |-> err, panic |-> FALSE, val |-> val]

TreeRunning(pc) == ret.op = "GeneratePKTree" /\ ~ret.err /\ ret.val.pc = pc

\* the parameter lookups and make([][]byte, tree_nodes)
TreeStart ==
  /\ ret.op = "none"
  /\ ret' = IF LmsParams(arg.tc).err \/ Params(arg.otstc).err
            THEN TreeRet(TRUE, [pc |-> "done", authtree |-> << >>, i |-> 0, r |-> 0, j |-> 0])
            ELSE TreeRet(FALSE,
                   [pc |-> "leaf",
                    authtree |-> [n \in 1..(Pow2(LmsParams(arg.tc).H + 1) - 1) |-> << >>] \o << >>,
                    i |-> 0, r |-> 0, j |-> 0])
  /\ UNCHANGED <<arg, ovars, lvars>>

\* the body of the outer loop up to j = i
TreeWriteLeaf ==
  /\ TreeRunning("leaf")
  /\ ret.val.i < LeavesOf(arg.tc)
  /\ ret' = TreeRet(FALSE,
              [pc |-> "fold",
               authtree |-> [ret.val.authtree EXCEPT ![ret.val.i + LeavesOf(arg.tc)] =
                               TreeLeaf(arg.otstc, arg.id, arg.seed, ret.val.i, LeavesOf(arg.tc))],
               i |-> ret.val.i,
               r |-> ret.val.i + LeavesOf(arg.tc),
               j |-> ret.val.i])
  /\ UNCHANGED <<arg, ovars, lvars>>

\* j%2 == 1, the test of the inner loop
FoldPending(j) == j % 2 = 1

\* one iteration of the inner loop
TreeWriteInner ==
  /\ TreeRunning("fold")
  /\ FoldPending(ret.val.j)
  /\ LET r == (ret.val.r - 1) \div 2
     IN ret' = TreeRet(FALSE,
                 [pc |-> "fold",
                  authtree |-> [ret.val.authtree EXCEPT ![r] =
                                  TreeInner(arg.id, r, ret.val.authtree[2 * r],
                                            ret.val.authtree[2 * r + 1])],
                  i |-> ret.val.i,
                  r |-> r,
                  j |-> (ret.val.j - 1) \div 2])
  /\ UNCHANGED <<arg, ovars, lvars>>

\* the inner loop ends: i++
TreeNextLeaf ==
  /\ TreeRunning("fold")
  /\ ~FoldPending(ret.val.j)
  /\ ret' = TreeRet(FALSE, [ret.val EXCEPT !.pc = "leaf", !.i = ret.val.i + 1])
  /\ UNCHANGED <<arg, ovars, lvars>>

\* the outer loop ends: return authtree, nil
TreeReturn ==
  /\ TreeRunning("leaf")
  /\ ret.val.i >= LeavesOf(arg.tc)
  /\ ret' = TreeRet(FALSE, [ret.val EXCEPT !.pc = "done"])
  /\ UNCHANGED <<arg, ovars, lvars>>

TreeNext ==
  \/ TreeStart
  \/ TreeWriteLeaf
  \/ TreeWriteInner
  \/ TreeNextLeaf
  \/ TreeReturn

SpecTree == TreeInit /\ [][TreeNext]_vars

\* ------------------------------------------------------------------------
\* Properties of GeneratePKTree (SpecTree)
\* ------------------------------------------------------------------------
\* the leaf as LmsPublicKey.Verify recomputes it: N bytes of
\* H(id || be32(r) || D_LEAF || k) with k the LM-OTS public key of leaf r
RecomputedLeaf(a, r) ==
  HashSum(HashWrite(HashWrite(HashWrite(HashWrite(HashNew, a.id), BE32(r)), D_LEAF),
                    OtsPublic(OtsNewPrivateKeyFromSeed(a.otstc, r - LeavesOf(a.tc),
                                                       a.id, a.seed).val).val.k),
          Params(a.otstc).N)

\* the inner node as LmsPublicKey.Verify recomputes it from its two children
RecomputedInner(a, r, left, right) ==
  HashSum(HashWrite(HashWrite(HashWrite(HashWrite(HashWrite(HashNew, a.id), BE32(r)),
                                        D_INTR), left), right),
          Params(a.otstc).N)

\* node r by the recursive definition
RECURSIVE RecomputedNode(_, _)
RecomputedNode(a, r) ==
  IF r >= LeavesOf(a.tc) THEN RecomputedLeaf(a, r)
  ELSE RecomputedInner(a, r, RecomputedNode(a, 2 * r), RecomputedNode(a, 2 * r + 1))

\* the nodes of height 0..MaxHeight trees written so far agree with the
\* recursive definition: an inner node is written after its two children and
\* is the hash of them, the leaf just written is the hash of its LM-OTS key
WrittenNodesRight(a, v) ==
  /\ \A r \in 1..(LeavesOf(a.tc) - 1) :
       v.authtree[r] # << >> =>
         /\ v.authtree[2 * r] # << >>
         /\ v.authtree[2 * r + 1] # << >>
         /\ v.authtree[r] = RecomputedInner(a, r, v.authtree[2 * r], v.authtree[2 * r + 1])
  /\ (v.pc = "fold" /\ v.r >= LeavesOf(a.tc)) =>
       v.authtree[v.r] = RecomputedLeaf(a, v.r)

\* the returned tree is full, is the recursive definition at the leaves and
\* at the root, is the tree of NewPrivateKeyFromSeed, and Public().k is node 1
ReturnedTreeRight(a, v) ==
  /\ Len(v.authtree) = 2 * LeavesOf(a.tc) - 1
  /\ \A r \in 1..Len(v.authtree) : v.authtree[r] # << >>
  /\ \A r \in LeavesOf(a.tc)..Len(v.authtree) : v.authtree[r] = RecomputedLeaf(a, r)
  /\ v.authtree[1] = RecomputedNode(a, 1)
  /\ LET key == LmsNewPrivateKeyFromSeed(a.tc, a.otstc, a.id, a.seed)
     IN /\ ~key.err
        /\ key.val.authtree = v.authtree
        /\ LmsPublic(key.val).k = v.authtree[1]

\* C20: in every state of the pass of GeneratePKTree every node written so
\* far has the value of the recursive definition (leaf r = H(id, r, D_LEAF,
\* k_i), inner r = H(id, r, D_INTR, node[2r], node[2r+1]), each N bytes), an
\* inner node is written only after both its children, the returned tree has
\* every index 1..2^(H+1)-1 filled, and the public key's k is node 1.
C20_SinglePassIsRecursiveTree ==
  (ret.op = "GeneratePKTree" /\ ~ret.err) =>
    /\ WrittenNodesRight(arg, ret.val)
    /\ ret.val.pc = "done" => ReturnedTreeRight(arg, ret.val)

\* ------------------------------------------------------------------------
\* What verification leaves in the caller's memory (SpecPure)
\* ------------------------------------------------------------------------
\* arg is the triple of the caller, whose byte slices the callee shares;
\* ret.val holds the triple before the first call (before), what the first
\* call returned (first), what the latest call returned (ok) and the number
\* of calls.

\* chains that run in the buffers of the signature
YAfterRecoverInPlace(params, sig, id, q, expanded) ==
  OtsRecoverEnds(params, sig, id, q, expanded)

\* sig.y after the loop over the chains of RecoverPublicKey: each chain runs
\* in tmp, a buffer made for it that sig.y[i] is copied into
YAfterRecover(params, sig, id, q, expanded) == sig.y

\* the signature as RecoverPublicKey(msg, pubtype, id, q) leaves it
OtsSigAfterRecover(sig, msg, pubtype, id, q) ==
  IF ~RecoverPublicKey(sig, msg, pubtype, id, q).ok THEN sig
  ELSE LET params == Params(sig.typecode)
           expanded == Expand(MessageDigest(params.N, id, q, sig.c, msg), sig.typecode)
       IN [sig EXCEPT !.y = YAfterRecover(params, sig, id, q, expanded.val)]

\* the signature as LmsPublicKey.Verify(msg, sig) leaves it: Verify writes
\* no element of sig.path, and reaches sig.ots through RecoverPublicKey
LmsSigAfterVerify(pub, msg, sig) ==
  IF LmsParams(pub.typecode).err \/ Params(pub.otstype).err THEN sig
  ELSE IF TypecodeMismatch(pub, sig) THEN sig
  ELSE [sig EXCEPT !.ots = OtsSigAfterRecover(sig.ots, msg, pub.otstype, pub.id, sig.q)]

\* the triple after a call of Verify or of RecoverPublicKey on it
TripleAfter(a) ==
  IF a.kind = "lms" THEN [a EXCEPT !.sig = LmsSigAfterVerify(a.pub, a.msg, a.sig)]
  ELSE [a EXCEPT !.sig = OtsSigAfterRecover(a.sig, a.msg, a.pub.typecode, a.pub.id, a.pub.q)]

PureInit ==
  /\ arg \in {LmsTriple(0)} \cup {OtsTriple(tc) : tc \in OtsTypecodes}
  /\ ret = NoRet
  /\ NoOtsKey
  /\ NoLmsKey

\* a call op on the triple that returns r: the first one, or one more of
\* the same function
CalledAgain(op, r) ==
  /\ ret.op \in {"none", op}
  /\ ret.op = op => ret.val.calls < MaxCalls
  /\ ret' = [op |-> op, err |-> FALSE, panic |-> FALSE,
             val |-> [ok |-> r,
                      first |-> IF ret.op = op THEN ret.val.first ELSE r,
                      before |-> IF ret.op = op THEN ret.val.before ELSE arg,
                      calls |-> IF ret.op = op THEN ret.val.calls + 1 ELSE 1]]
  /\ arg' = TripleAfter(arg)
  /\ UNCHANGED <<ovars, lvars>>

\* arg.pub.Verify(arg.msg, arg.sig), of package lms or of package ots
CallVerifyAgain ==
  CalledAgain("Verify", IF arg.kind = "lms" THEN LmsVerify(arg.pub, arg.msg, arg.sig)
                        ELSE OtsVerify(arg.pub, arg.msg, arg.sig))

\* RecoverPublicKey on the LM-OTS signature of the triple
CallRecoverAgain ==
  CalledAgain("RecoverPublicKey",
              IF arg.kind = "lms"
              THEN RecoverPublicKey(arg.sig.ots, arg.msg, arg.pub.otstype, arg.pub.id,
                                    arg.sig.q)
              ELSE RecoverPublicKey(arg.sig, arg.msg, arg.pub.typecode, arg.pub.id,
                                    arg.pub.q))

PureNext ==
  \/ ChangeMessage
  \/ ChangeY
  \/ ChangePath
  \/ CallVerifyAgain
  \/ CallRecoverAgain

SpecPure == PureInit /\ [][PureNext]_vars

Goroutines == {1, 2}

IdleCall ==
  [pc |-> "idle", rngerr |-> FALSE, otsq |-> 0 - 1, r |-> 0, tmp |-> 0, sigq |-> 0 - 1]

\* the counters of the key when the two calls start
RaceCounters == {0, LeavesOf(lmsTypecodeFirst) - 1, LeavesOf(lmsTypecodeFirst)}

RaceInit ==
  /\ \E q \in RaceCounters : priv = [VerifyKey EXCEPT !.q = q]
  /\ origin = [kind |-> "seed", b |-> << >>]
  /\ q0 = priv.q
  /\ lsig = NoLmsSig
  /\ lret = [NoLmsRet EXCEPT !.op = "new", !.q = priv.q]
  /\ lsigns = 0
  /\ arg = TheMessage
  /\ ret = [op |-> "Sign", err |-> FALSE, panic |-> FALSE,
            val |-> [g \in Goroutines |-> IdleCall]]
  /\ NoOtsKey

\* goroutine g moves on: its locals become c, the key becomes key
RaceStep(g, c, key) ==
  /\ ret' = [ret EXCEPT !.val[g] = c]
  /\ priv' = key
  /\ UNCHANGED <<origin, q0, lsig, lret, lsigns, arg, ovars>>

\* lines 91-107: the exhaustion test and ots.NewPrivateKeyFromSeed(priv.q)
RaceDerive(g) ==
  /\ ret.val[g].pc = "idle"
  /\ \E rng \in Readers :
       IF LmsParams(priv.typecode).err \/ Exhausted(priv, LmsParams(priv.typecode))
       THEN RaceStep(g, [ret.val[g] EXCEPT !.pc = "error"], priv)
       ELSE RaceStep(g, [ret.val[g] EXCEPT !.pc = "derived", !.otsq = priv.q,
                                           !.rngerr = rng.err], priv)

\* lines 108-111: ots_priv.Sign(msg, rng)
RaceOtsSign(g) ==
  /\ ret.val[g].pc = "derived"
  /\ RaceStep(g, [ret.val[g] EXCEPT !.pc = IF ret.val[g].rngerr THEN "error" ELSE "signed"],
              priv)

\* lines 112-120: r = leaves + priv.q and the authentication path; an index
\* beyond the tree is a panic
RacePath(g) ==
  /\ ret.val[g].pc = "signed"
  /\ LET r == LeavesOf(priv.typecode) + priv.q
     IN RaceStep(g, [ret.val[g] EXCEPT
                       !.pc = IF \E i \in 0..(LmsParams(priv.typecode).H - 1) :
                                   SiblingOf(r, i) > Len(priv.authtree)
                              THEN "panic" ELSE "path",
                       !.r = r],
                 priv)

\* priv.q++ of incrementQ, the load
RaceLoadQ(g) ==
  /\ ret.val[g].pc = "path"
  /\ RaceStep(g, [ret.val[g] EXCEPT !.pc = "loaded", !.tmp = priv.q], priv)

\* priv.q++ of incrementQ, the store
RaceStoreQ(g) ==
  /\ ret.val[g].pc = "loaded"
  /\ RaceStep(g, [ret.val[g] EXCEPT !.pc = "stored"],
              [priv EXCEPT !.q = ret.val[g].tmp + 1])

\* lines 125-130: the signature is returned with priv.q - 1
RaceReturn(g) ==
  /\ ret.val[g].pc = "stored"
  /\ RaceStep(g, [ret.val[g] EXCEPT !.pc = "done", !.sigq = SigCounter(priv)], priv)

RaceNext ==
  \E g \in Goroutines :
    \/ RaceDerive(g)
    \/ RaceOtsSign(g)
    \/ RacePath(g)
    \/ RaceLoadQ(g)
    \/ RaceStoreQ(g)
    \/ RaceReturn(g)

SpecRace == RaceInit /\ [][RaceNext]_vars

\* ------------------------------------------------------------------------
\* Properties of overlapping Sign calls (SpecRace)
\* ------------------------------------------------------------------------
\* C22: two Sign calls on one key that overlap never both derive the LM-OTS
\* key of the same leaf q, and two signatures they return never carry the
\* same q.
C22_OverlappingSignsUseDistinctLeaves ==
  \A g, h \in Goroutines :
    g # h =>
      /\ (ret.val[g].otsq >= 0 /\ ret.val[h].otsq >= 0) => ret.val[g].otsq # ret.val[h].otsq
      /\ (ret.val[g].pc = "done" /\ ret.val[h].pc = "done") => ret.val[g].sigq # ret.val[h].sigq

\* ------------------------------------------------------------------------
\* Properties of the typecode pair of an LMS private key (Spec)
\* ------------------------------------------------------------------------
\* C23: a private key returned without error by NewPrivateKeyFromSeed (as
\* NewPrivateKey calls it) or by LmsPrivateKeyFromBytes pairs an LMS typecode
\* and an LM-OTS typecode of the same width: M = N.
C23_WidthsAgree ==
  origin.kind \in {"seed", "bytes"} =>
    LmsParams(priv.typecode).M = Params(priv.otstype).N

\* ------------------------------------------------------------------------
\* Properties of the nodes of GeneratePKTree (SpecTree)
\* ------------------------------------------------------------------------
\* C24: the tree GeneratePKTree builds has 2^(H+1)-1 nodes, and every node
\* it has written is N bytes long, N of the LM-OTS parameter set, the width
\* of the nodes LMS Verify recomputes.
C24_NodesAreNBytes ==
  (ret.op = "GeneratePKTree" /\ ~ret.err) =>
    /\ Len(ret.val.authtree) = Pow2(LmsParams(arg.tc).H + 1) - 1
    /\ \A r \in 1..Len(ret.val.authtree) :
         ret.val.authtree[r] # << >> =>
           ByteLen(ret.val.authtree[r]) = Params(arg.otstc).N

\* ------------------------------------------------------------------------
\* Properties of the nonce of an LM-OTS signature (SpecOts)
\* ------------------------------------------------------------------------
\* C25: a signature that Sign has returned was made with a reader that
\* returned no error and delivered at least N bytes, and its nonce c is the
\* first N bytes the reader delivered; so Sign fails whenever the reader
\* returns an error or fewer than N bytes.
C25_NonceFilledByReader ==
  osig.has =>
    /\ ~osig.rng.err
    /\ ByteLen(osig.rng.data) >= Params(osig.val.typecode).N
    /\ osig.val.c = Slice(osig.rng.data, 0, Params(osig.val.typecode).N)

\* ------------------------------------------------------------------------
\* The bytes that Key() returns (SpecKey)
\* ------------------------------------------------------------------------
\* arg.mem is the memory of the byte arrays, by name; a slice is the name of
\* the array it points into. arg.k is the slice pub.k of the public key and
\* arg.root, for an LMS key, the slice priv.authtree[0] of the private key.

\* an LM-OTS public key from Public(): k is the slice HashSum returned
OtsKeyHolder(tc) ==
  [kind |-> "ots",
   mem |-> [a \in {"k"} |->
              OtsPublic(OtsNewPrivateKeyFromSeed(tc, 0, TheId, TheSeed).val).val.k],
   k |-> "k", root |-> "none"]

\* an LMS public key from priv.Public(): k is the slice priv.authtree[0]
LmsKeyHolder(key) ==
  [kind |-> "lms", mem |-> [a \in {"authtree[0]"} |-> LmsPublic(key).k],
   k |-> "authtree[0]", root |-> "authtree[0]"]

\* Key(): pub.k[:], a slice of the array of pub.k
Key(holder) == holder.k

KeyInit ==
  /\ arg \in {OtsKeyHolder(tc) : tc \in OtsTypecodes} \cup {LmsKeyHolder(VerifyKey)}
  /\ ret = NoRet
  /\ NoOtsKey
  /\ NoLmsKey

\* b := pub.Key()
CallKey ==
  Called("Key", [err |-> FALSE, panic |-> FALSE,
                 val |-> [slice |-> Key(arg), before |-> arg.mem, written |-> FALSE]])

\* b[i] ^= 1 by the caller of Key()
WriteReturnedByte ==
  /\ ret.op = "Key" /\ ~ret.val.written
  /\ \E i \in 0..(ByteLen(arg.mem[ret.val.slice]) - 1) :
       arg' = [arg EXCEPT !.mem[ret.val.slice] = Flipped(@, i)]
  /\ ret' = [ret EXCEPT !.val.written = TRUE]
  /\ UNCHANGED <<ovars, lvars>>

KeyNext ==
  \/ CallKey
  \/ WriteReturnedByte

SpecKey == KeyInit /\ [][KeyNext]_vars

\* ------------------------------------------------------------------------
\* Properties of Key() (SpecKey)
\* ------------------------------------------------------------------------
\* C26: whatever the caller writes into the bytes Key() returned, k of the
\* public key and, for an LMS key, the root node of the private key's tree
\* are what they were when Key() was called.
C26_KeyReturnsCopy ==
  ret.op = "Key" =>
    /\ arg.mem[arg.k] = ret.val.before[arg.k]
    /\ arg.kind = "lms" => arg.mem[arg.root] = ret.val.before[arg.root]

\* ------------------------------------------------------------------------
\* Properties of failed LM-OTS Sign calls (SpecOts)
\* ------------------------------------------------------------------------
\* C27: a Sign call that returns an error leaves the key as it was (valid
\* and x keep their values), whether the key was consumed, the reader failed
\* or the typecode is unknown; a valid key whose Sign failed can still sign;
\* the key changes only in a Sign call that returns a signature, which
\* clears valid and erases x.
C27_FailedSignKeepsKey ==
  [][/\ (oret'.op = "Sign" /\ oret'.err) =>
          /\ okey' = okey
          /\ okey.valid => \A msg \in Messages : ~OtsSign(okey', msg, TheReader).err
     /\ okey' # okey =>
          /\ oret'.op = "Sign" /\ ~oret'.err
          /\ osigns' = osigns + 1
          /\ okey' = [okey EXCEPT !.x = << >>, !.valid = FALSE]
     /\ \A msg \in Messages, rng \in OtsReaders :
          LET bad == [okey EXCEPT !.typecode = lmotsTypecodeLast + 1]
          IN OtsSign(bad, msg, rng).err /\ OtsSign(bad, msg, rng).key = bad]_vars

C27_Witness ==
  /\ oret.op = "Sign" /\ oret.err
  /\ okey.valid
  /\ Len(okey.x) = Params(okey.typecode).P
  /\ osigns = 0

\* ------------------------------------------------------------------------
\* Properties of Public() of an LM-OTS private key (SpecOts)
\* ------------------------------------------------------------------------
\* C28: every Public() call on the key, also after Sign has consumed it,
\* returns a public key or an error (it does not panic), and a public key
\* it returns equals the one an earlier call returned.
C28_PublicAlwaysReturns ==
  [][oret'.op = "Public" =>
       /\ ~oret'.panic
       /\ (~oret'.err /\ opub.has) => opub' = opub]_vars

\* ------------------------------------------------------------------------
\* Expand applied to two digests (SpecDigitPairs)
\* ------------------------------------------------------------------------
\* the digests compared with x: those of BytesOfLen and those that differ
\* from x in the lowest bit of the first or of the last byte
DigestsBeside(x) ==
  (BytesOfLen(ByteLen(x)) \cup {Flipped(x, k) : k \in {0, ByteLen(x) - 1}}) \ {x}

\* two distinct digests of N bytes and an LM-OTS typecode
DigitPairInputs ==
  UNION {{[x |-> x, y |-> y, mode |-> mode] :
            x \in BytesOfLen(Params(mode).N),
            y \in UNION {DigestsBeside(z) : z \in BytesOfLen(Params(mode).N)}} :
         mode \in OtsTypecodes}

DigitPairsInit ==
  /\ arg \in {a \in DigitPairInputs : a.y \in DigestsBeside(a.x)}
  /\ ret = NoRet
  /\ NoOtsKey
  /\ NoLmsKey

\* Expand(arg.x, arg.mode) and Expand(arg.y, arg.mode)
CallExpandBoth ==
  Called("Expand2", [err |-> Expand(arg.x, arg.mode).err \/ Expand(arg.y, arg.mode).err,
                     panic |-> FALSE,
                     val |-> [a |-> Expand(arg.x, arg.mode).val,
                              b |-> Expand(arg.y, arg.mode).val]])

DigitPairsNext == CallExpandBoth

SpecDigitPairs == DigitPairsInit /\ [][DigitPairsNext]_vars

\* ------------------------------------------------------------------------
\* Properties of Expand on two digests (SpecDigitPairs)
\* ------------------------------------------------------------------------
\* C29: for two distinct digests of N bytes the digit vectors of Expand are
\* incomparable: some digit of the second is below that of the first and
\* some digit of the first is below that of the second, so neither set of
\* chain values can be hashed forward to the other.
C29_ExpandIncomparable ==
  ret.op = "Expand2" =>
    /\ ~ret.err
    /\ Len(ret.val.a) = Len(ret.val.b)
    /\ \E i \in 1..Len(ret.val.a) : ret.val.b[i] < ret.val.a[i]
    /\ \E i \in 1..Len(ret.val.a) : ret.val.a[i] < ret.val.b[i]

\* the digits of the digest of the first are nowhere above those of the
\* second: the lower digit of the second is a digit of the checksum
C29_Witness ==
  /\ ret.op = "Expand2" /\ arg.mode = lmotsTypecodeLast
  /\ \A i \in 1..Params(arg.mode).N : ret.val.a[i] <= ret.val.b[i]
  /\ \E i \in (Params(arg.mode).N + 1)..Len(ret.val.a) : ret.val.b[i] < ret.val.a[i]

\* ------------------------------------------------------------------------
\* Properties of what Sign leaves of an LMS private key (Spec)
\* ------------------------------------------------------------------------
\* C30: every step on the key, a Sign call that returns a signature or one
\* that returns an error included, leaves typecode, otstype, id, seed and
\* every node of the tree as they were, so only q changes and Public()
\* returns the same public key before and after.
C30_SignChangesOnlyQ ==
  [][/\ priv'.typecode = priv.typecode
     /\ priv'.otstype = priv.otstype
     /\ priv'.id = priv.id
     /\ priv'.seed = priv.seed
     /\ priv'.authtree = priv.authtree
     /\ LmsPublic(priv') = LmsPublic(priv)
     /\ (lret.op = "Public" /\ lret'.op = "Public") => lret'.out = lret.out]_vars

C30_Witness ==
  /\ lret.op = "Public"
  /\ lsigns >= 2
  /\ lret.out = LmsPublic(priv)
  /\ lret.out.k = priv.authtree[1]

====
